---- MODULE Spec2Model ----
(***************************************************************************)
(* The event-driven kanban board of linear-cli: the shared board state     *)
(* (kanban/state/kanbanState.ts), the board renderer and grouping engine   *)
(* (kanban/components/board.ts), the key bindings (kanban/utils key        *)
(* bindings, src/unnamed/part_004) and the box-level bindings of the       *)
(* detail view and of the relationship graph.                              *)
(*                                                                         *)
(* One action is one input event: a key press runs the screen-level        *)
(* handler bound to the key and then the handler that the shown box binds  *)
(* to the same key; every setter call runs its subscribers (the board      *)
(* render among them) before it returns.                                   *)
(***************************************************************************)
EXTENDS Integers, Sequences, FiniteSets, TLC

VARIABLES
  issues,             \* state.issues
  teams,              \* state.teams
  users,              \* state.users
  workflowStates,     \* state.workflowStates
  selectedTeamId,     \* state.selectedTeamId
  selectedIssueId,    \* state.selectedIssueId
  selectedAssigneeId, \* state.selectedAssigneeId
  viewMode,           \* state.viewMode
  filterDimension,    \* state.filterDimension
  focusedColumnIndex, \* state.focusedColumnIndex
  focusedIssueIndex,  \* state.focusedIssueIndex
  columns,            \* the column tree built by the last board render
  detailShown,        \* the detail box is shown (not hidden)
  graphShown,         \* the relationship graph box is shown
  emitted,            \* the events published by the last input, in order
  focused,            \* relationships session: the widget that has the focus
  warningShown,       \* relationships session: the transient message is up
  running,            \* relationships session: the screen is not destroyed
  isLoading,          \* state.isLoading
  error,              \* state.error
  remote,             \* the remote service's issues, in the order it lists them
  task,               \* the relation operation in progress and what it did
  pending,            \* the refreshData / refreshIssues calls in flight
  history,            \* the refresh calls started and completed, in order
  noIssuesBox,        \* the 'no issues' panels held by columnsContainer
  selectedTeamName,   \* state.selectedTeamName
  selectedStateId,    \* state.selectedStateId
  startDate,          \* state.startDate
  endDate,            \* state.endDate
  graphChildren,      \* the widgets held by graphContainer, in order
  graphContent,       \* the text set on graphContainer
  graphPending,       \* the graph renders waiting for getIssueRelations
  graphRelations,     \* the edges answered to the last completed graph render
  graphNodes,         \* the nodes created by the last completed graph render
  graphRenders,       \* the number of graph renders started so far
  states,             \* standalone board: the workflow states of the team
  stateIssues,        \* standalone board: the issues of each state's column
  currentColumnIndex, \* standalone board: the selected column
  currentCardIndices  \* standalone board: the selected card of each column

vars == <<issues, teams, users, workflowStates, selectedTeamId,
          selectedIssueId, selectedAssigneeId, viewMode, filterDimension,
          focusedColumnIndex, focusedIssueIndex, columns, detailShown,
          graphShown, emitted, focused, warningShown,
          running, isLoading, error, remote, task, pending, history,
          noIssuesBox, selectedTeamName, selectedStateId, startDate, endDate,
          graphChildren, graphContent, graphPending, graphRelations,
          graphNodes, graphRenders, states, stateIssues, currentColumnIndex,
          currentCardIndices>>

\* the loading and error fields and the asynchronous operations
asyncVars == <<isLoading, error, remote, task, pending, history>>

\* the state fields that only their setters touch, and the graph widget:
\* the board session follows the graph box by graphShown alone, the
\* container and its renders are followed in GraphSpec
fieldVars == <<selectedTeamName, selectedStateId, startDate, endDate>>
graphVars == <<graphChildren, graphContent, graphPending, graphRelations,
               graphNodes, graphRenders>>
\* the navigation state of the standalone board (kanban/index.ts), which no
\* board session touches
standaloneVars == <<states, stateIssues, currentColumnIndex,
                    currentCardIndices>>
sideVars == <<fieldVars, graphVars, standaloneVars>>

----------------------------------------------------------------------------
(* Bounds *)

\* Down is not applied past this row (the code has no upper limit)
MaxRow == 2
\* longest issue list and workflow-state list given to the grouping engine
MaxIssues == 3
MaxStates == 3
\* most issues and workflow states a fetch of a session returns
MaxFetchedIssues == 2
MaxFetchedStates == 3

----------------------------------------------------------------------------
(* Enumerations and data *)

Null == "null"

KANBAN == "kanban"
DETAIL == "detail"
TEAM_SELECT == "team_select"
FILTER == "filter"
CREATE == "create"
HELP == "help"
RELATIONSHIP_GRAPH == "relationship_graph"

ViewMode == {KANBAN, DETAIL, TEAM_SELECT, FILTER, CREATE, HELP,
             RELATIONSHIP_GRAPH}

DIM_STATE == "state"
DIM_ASSIGNEE == "assignee"
DIM_PRIORITY == "priority"
DIM_LABEL == "label"

FilterDimension == {DIM_STATE, DIM_ASSIGNEE, DIM_PRIORITY, DIM_LABEL}

\* display name of a workflow state, user or label id
NameOf(id) ==
  CASE id = "sA" -> "A" [] id = "sB" -> "B" [] id = "sC" -> "C"
    [] id = "sX" -> "X"
    [] id = "u1" -> "Ann" [] id = "u2" -> "Bob"
    [] id = "l1" -> "bug" [] id = "l2" -> "ui"
    [] OTHER -> id

\* LinearState as fetched by getWorkflowStates (id, name, position)
LinearState == { [id |-> "sA", name |-> "A", position |-> 0],
                 [id |-> "sB", name |-> "B", position |-> 1],
                 [id |-> "sC", name |-> "C", position |-> 2] }

\* LinearIssue: the fields the board and the relation pipeline read.
\* assignee is a user id or Null, priority is 0..4, labels is the ordered
\* list of distinct label ids, parent is an issue id or Null, blocking and
\* relatedTo are lists of issue ids.
LinearIssue ==
  { [id |-> "i1", identifier |-> "ENG-1", state |-> "sA", assignee |-> "u1",
     priority |-> 1, labels |-> <<"l1", "l2">>, parent |-> Null,
     blocking |-> <<>>, relatedTo |-> <<>>],
    [id |-> "i2", identifier |-> "ENG-2", state |-> "sB", assignee |-> Null,
     priority |-> 0, labels |-> <<>>, parent |-> Null,
     blocking |-> <<>>, relatedTo |-> <<>>],
    [id |-> "i3", identifier |-> "ENG-3", state |-> "sC", assignee |-> "u2",
     priority |-> 1, labels |-> <<"l2">>, parent |-> Null,
     blocking |-> <<>>, relatedTo |-> <<>>],
    [id |-> "i4", identifier |-> "ENG-4", state |-> "sA", assignee |-> "u1",
     priority |-> 4, labels |-> <<"l1">>, parent |-> Null,
     blocking |-> <<>>, relatedTo |-> <<>>] }

\* the sequences of distinct elements of S of length at most n
DistinctSeqs(S, n) ==
  UNION { { s \in [1..k -> S] : \A a, b \in 1..k : a # b => s[a] # s[b] }
          : k \in 0..n }

\* every issue list and every workflow-state list, in any order
IssueLists == DistinctSeqs(LinearIssue, MaxIssues)
StateLists == DistinctSeqs(LinearState, MaxStates)

\* the first n elements of a list (all of it when it is shorter)
Prefix(list, n) == SubSeq(list, 1, IF n < Len(list) THEN n ELSE Len(list))

\* the remote service's issues and workflow states in the order it returns
\* them; a fetch during a board session returns a prefix (the filters and
\* the limit of the query decide how long)
IssueFeed ==
  << CHOOSE i \in LinearIssue : i.id = "i1",
     CHOOSE i \in LinearIssue : i.id = "i4",
     CHOOSE i \in LinearIssue : i.id = "i2",
     CHOOSE i \in LinearIssue : i.id = "i3" >>
StateFeed ==
  << CHOOSE s \in LinearState : s.id = "sC",
     CHOOSE s \in LinearState : s.id = "sA",
     CHOOSE s \in LinearState : s.id = "sB" >>

IssueSnapshots == { Prefix(IssueFeed, n) : n \in 0..MaxFetchedIssues }
StateSnapshots == { Prefix(StateFeed, n) : n \in 0..MaxFetchedStates }

Ev(name, payload) == [name |-> name, payload |-> payload]

----------------------------------------------------------------------------
(* Grouping engine *)

RECURSIVE InsertByPosition(_, _)
InsertByPosition(sorted, s) ==
  IF sorted = <<>> THEN <<s>>
  ELSE IF Head(sorted).position - s.position > 0
       THEN <<s>> \o sorted
       ELSE <<Head(sorted)>> \o InsertByPosition(Tail(sorted), s)

\* mutant: the states stay in the order they were fetched in
sortByPosition_unsorted(ws) == ws

\* Array.prototype.sort with (a, b) => a.position - b.position (stable)
RECURSIVE sortByPosition(_)
sortByPosition(ws) ==
  IF ws = <<>> THEN <<>>
  ELSE InsertByPosition(sortByPosition(SubSeq(ws, 1, Len(ws) - 1)),
                        ws[Len(ws)])

HasGroup(groups, key) == \E g \in 1..Len(groups) : groups[g].key = key

\* groups[key] = { name, issues: [] }
SeedGroup(groups, key, name) ==
  IF HasGroup(groups, key)
  THEN [g \in 1..Len(groups) |->
          IF groups[g].key = key
          THEN [key |-> key, name |-> name, issues |-> <<>>]
          ELSE groups[g]]
  ELSE Append(groups, [key |-> key, name |-> name, issues |-> <<>>])

\* mutant: the issue is pushed twice
PushIssue_twice(groups, key, name, issue) ==
  LET seeded == IF HasGroup(groups, key) THEN groups
                ELSE SeedGroup(groups, key, name)
  IN [g \in 1..Len(seeded) |->
        IF seeded[g].key = key
        THEN [seeded[g] EXCEPT !.issues = Append(Append(@, issue), issue)]
        ELSE seeded[g]]

\* if (!groups[key]) groups[key] = {name, issues: []}; groups[key].issues.push(issue)
PushIssue(groups, key, name, issue) ==
  LET seeded == IF HasGroup(groups, key) THEN groups
                ELSE SeedGroup(groups, key, name)
  IN [g \in 1..Len(seeded) |->
        IF seeded[g].key = key
        THEN [seeded[g] EXCEPT !.issues = Append(@, issue)]
        ELSE seeded[g]]

RECURSIVE SeedStates(_, _)
SeedStates(groups, ws) ==
  IF ws = <<>> THEN groups
  ELSE SeedStates(SeedGroup(groups, Head(ws).id, Head(ws).name), Tail(ws))

PriorityKey(p) == <<"0", "1", "2", "3", "4">>[p + 1]
PriorityName(p) == <<"Urgent", "High", "Medium", "Low", "No Priority">>[p + 1]

RECURSIVE SeedPriorities(_, _)
SeedPriorities(groups, ps) ==
  IF ps = <<>> THEN groups
  ELSE SeedPriorities(
         SeedGroup(groups, PriorityKey(Head(ps)), PriorityName(Head(ps))),
         Tail(ps))

\* mutant: only the first label of an issue gets the issue
PushLabels_firstOnly(groups, labels, issue) ==
  IF labels = <<>> THEN groups
  ELSE PushIssue(groups, Head(labels), NameOf(Head(labels)), issue)

RECURSIVE PushLabels(_, _, _)
PushLabels(groups, labels, issue) ==
  IF labels = <<>> THEN groups
  ELSE PushLabels(PushIssue(groups, Head(labels), NameOf(Head(labels)), issue),
                  Tail(labels), issue)

\* the body of issues.forEach for one issue, by dimension
AddIssue(groups, issue, dimension) ==
  CASE dimension = DIM_STATE ->
         PushIssue(groups, issue.state, NameOf(issue.state), issue)
    [] dimension = DIM_ASSIGNEE ->
         IF issue.assignee = Null
         THEN PushIssue(groups, "unassigned", "Unassigned", issue)
         ELSE PushIssue(groups, issue.assignee, NameOf(issue.assignee), issue)
    [] dimension = DIM_PRIORITY ->
         PushIssue(groups, PriorityKey(issue.priority),
                   PriorityName(issue.priority), issue)
    [] dimension = DIM_LABEL ->
         IF Len(issue.labels) = 0
         THEN PushIssue(groups, "no-label", "No Labels", issue)
         ELSE PushLabels(groups, issue.labels, issue)

RECURSIVE AddIssues(_, _, _)
AddIssues(groups, iss, dimension) ==
  IF iss = <<>> THEN groups
  ELSE AddIssues(AddIssue(groups, Head(iss), dimension), Tail(iss), dimension)

\* mutant: only the workflow states are seeded
SeededGroups_statesOnly(ws, dimension) ==
  IF dimension = DIM_STATE THEN SeedStates(<<>>, sortByPosition(ws)) ELSE <<>>

\* the groups seeded before any issue is added
SeededGroups(ws, dimension) ==
  CASE dimension = DIM_STATE -> SeedStates(<<>>, sortByPosition(ws))
    [] dimension = DIM_ASSIGNEE -> SeedGroup(<<>>, "unassigned", "Unassigned")
    [] dimension = DIM_PRIORITY -> SeedPriorities(<<>>, <<0, 1, 2, 3, 4>>)
    [] dimension = DIM_LABEL -> SeedGroup(<<>>, "no-label", "No Labels")

\* the groups in key insertion order, as Object.entries enumerates them
groupIssuesByDimension(iss, ws, dimension) ==
  AddIssues(SeededGroups(ws, dimension), iss, dimension)

----------------------------------------------------------------------------
(* Board render *)

\* renderBoard without the early return for an empty issue list
renderBoard_noEarlyReturn(iss, ws, dimension, col) ==
  LET groups == groupIssuesByDimension(iss, ws, dimension)
  IN [columns |-> groups, workflowStates |-> ws,
      focusedColumnIndex |-> col, events |-> <<>>, placeholder |-> FALSE]

\* renderBoard: the column tree, the workflow-state list (sorted in place
\* when grouping by state), the focused column and the events it publishes
renderBoard(iss, ws, dimension, col) ==
  IF Len(iss) = 0
  THEN [columns |-> <<>>, workflowStates |-> ws,
        focusedColumnIndex |-> col, events |-> <<>>, placeholder |-> TRUE]
  ELSE LET groups == groupIssuesByDimension(iss, ws, dimension)
           reset == col >= Len(groups)
       IN [columns |-> groups,
           workflowStates |-> IF dimension = DIM_STATE THEN sortByPosition(ws)
                              ELSE ws,
           focusedColumnIndex |-> IF reset THEN 0 ELSE col,
           events |-> IF reset THEN <<Ev("focused-column-changed", 0)>>
                      ELSE <<>>,
           placeholder |-> FALSE]

\* most renders followed through one chain of corrective calls
MaxNesting == 3

RECURSIVE nestedRenders_sameIndex(_, _, _, _, _)
RECURSIVE nestedRenders(_, _, _, _, _)

\* mutant: the corrective call sets the index the render found
nestedRenders_sameIndex(iss, ws, dimension, col, fuel) ==
  IF fuel = 0 \/ Len(iss) = 0 THEN 1
  ELSE IF col >= Len(groupIssuesByDimension(iss, ws, dimension))
  THEN 1 + nestedRenders_sameIndex(iss, ws, dimension, col, fuel - 1)
  ELSE 1

\* the runs of renderBoard one call of it amounts to: the call itself and,
\* when it ends in setFocusedColumn(0), the render the
\* 'focused-column-changed' subscriber starts inside that call, and so on;
\* chains are followed up to MaxNesting corrective calls
nestedRenders(iss, ws, dimension, col, fuel) ==
  IF fuel = 0 \/ Len(iss) = 0 THEN 1
  ELSE IF col >= Len(groupIssuesByDimension(iss, ws, dimension))
  THEN 1 + nestedRenders(iss, ws, dimension, 0, fuel - 1)
  ELSE 1

\* the 'no issues' panels after a render: renderBoard destroys the widgets
\* of the columns array only, and the panel is appended to columnsContainer
\* without being pushed to that array, so a panel stays once it is built
appendNoIssuesBox(r) ==
  [shown |-> r.placeholder, stale |-> noIssuesBox.stale \/ noIssuesBox.shown]

----------------------------------------------------------------------------
\* history: the ids of the calls completed since the last moment at which
\* no call was in flight, in the order of their completion, and the record
\* of the last of them
NoHistory ==
  [order |-> <<>>,
   last |-> [id |-> 0, kind |-> "none", pc |-> "none", ok |-> FALSE,
             issues |-> <<>>]]

\* no relation operation in progress
NoRelation == [issueId |-> Null, type |-> Null, relatedIssueId |-> Null]
NoTask ==
  [pc |-> "idle", kind |-> "none", issueId |-> Null, identifier |-> Null,
   relationId |-> NoRelation, resolved |-> Null, lookup |-> "pending",
   refresh |-> "pending", result |-> "pending", calls |-> <<>>,
   before |-> <<>>, message |-> Null]

\* isLoading and error as initializeState sets them, no operation started
SideIdle ==
  /\ selectedTeamName = Null
  /\ selectedStateId = Null
  /\ startDate = Null
  /\ endDate = Null
  /\ graphChildren = <<>>
  /\ graphContent = ""
  /\ graphPending = <<>>
  /\ graphRelations = <<>>
  /\ graphNodes = <<>>
  /\ graphRenders = 0
  /\ states = <<>>
  /\ stateIssues = <<>>
  /\ currentColumnIndex = 0
  /\ currentCardIndices = <<>>

AsyncIdle ==
  /\ isLoading = FALSE
  /\ error = Null
  /\ remote = <<>>
  /\ task = NoTask
  /\ pending = <<>>
  /\ history = NoHistory

Init ==
  /\ issues = <<>>
  /\ teams = <<>>
  /\ users = <<>>
  /\ workflowStates = <<>>
  /\ selectedTeamId = Null
  /\ selectedIssueId = Null
  /\ selectedAssigneeId = Null
  /\ viewMode = KANBAN
  /\ filterDimension = DIM_STATE
  /\ focusedColumnIndex = 0
  /\ focusedIssueIndex = 0
  /\ columns = <<>>
  /\ noIssuesBox = [shown |-> TRUE, stale |-> FALSE]
  /\ detailShown = FALSE
  /\ graphShown = FALSE
  /\ emitted = <<>>
  /\ focused = "none"
  /\ warningShown = FALSE
  /\ running = TRUE
  /\ AsyncIdle
  /\ SideIdle

----------------------------------------------------------------------------
(* Setters and their subscribers *)

Max(a, b) == IF a > b THEN a ELSE b
Min(a, b) == IF a < b THEN a ELSE b

\* array[index] of a JavaScript array held as a sequence: is it defined
Defined(arr, index) == index >= 0 /\ index < Len(arr)

\* the box that receives box-level key bindings is the box that is shown
detailFocused == detailShown
graphFocused == graphShown

\* setViewMode(mode) and the show/hide subscribers of the two boxes
setViewMode(mode) ==
  /\ viewMode' = mode
  /\ detailShown' = (mode = DETAIL)
  /\ graphShown' = (mode = RELATIONSHIP_GRAPH)

\* a setter whose event re-renders the board: the fields after the setter
\* and the render it triggers, and the events published, setter's first
Rendered(iss, ws, dimension, col, event) ==
  LET r == renderBoard(iss, ws, dimension, col)
  IN /\ issues' = iss
     /\ workflowStates' = r.workflowStates
     /\ filterDimension' = dimension
     /\ focusedColumnIndex' = r.focusedColumnIndex
     /\ columns' = r.columns
     /\ noIssuesBox' = appendNoIssuesBox(r)
     /\ emitted' = <<event>> \o r.events

\* setFocusedColumn(index)
setFocusedColumn(index) ==
  Rendered(issues, workflowStates, filterDimension, index,
           Ev("focused-column-changed", index))

\* setFocusedIssue(index)
setFocusedIssue(index) ==
  /\ focusedIssueIndex' = index
  /\ Rendered(issues, workflowStates, filterDimension, focusedColumnIndex,
              Ev("focused-issue-changed", index))

\* setFilterDimension(dimension)
setFilterDimension(dimension) ==
  Rendered(issues, workflowStates, dimension, focusedColumnIndex,
           Ev("filter-dimension-changed", dimension))

boardVars == <<issues, workflowStates, filterDimension, focusedColumnIndex,
               columns, noIssuesBox>>
modeVars == <<viewMode, detailShown, graphShown>>
restVars == <<teams, users, focused, warningShown, running, asyncVars,
              sideVars>>
selVars == <<selectedTeamId, selectedAssigneeId>>

\* a handler whose guard fails: nothing is set, nothing is published
Ignored ==
  /\ emitted' = <<>>
  /\ UNCHANGED <<boardVars, modeVars, restVars, selVars, selectedIssueId,
                 focusedIssueIndex>>

----------------------------------------------------------------------------
(* Data arriving from the remote service (refreshData, refreshIssues,     *)
(* changeTeam, changeAssignee): each completed fetch calls its setter     *)

\* setWorkflowStates(states)
LoadStates(ws) ==
  /\ Rendered(issues, ws, filterDimension, focusedColumnIndex,
              Ev("states-updated", ws))
  /\ UNCHANGED <<modeVars, restVars, selVars, selectedIssueId,
                 focusedIssueIndex>>

\* setIssues(issues)
LoadIssues(iss) ==
  /\ Rendered(iss, workflowStates, filterDimension, focusedColumnIndex,
              Ev("issues-updated", iss))
  /\ UNCHANGED <<modeVars, restVars, selVars, selectedIssueId,
                 focusedIssueIndex>>

----------------------------------------------------------------------------
(* Key bindings *)

KeyLeft ==
  /\ IF viewMode # KANBAN THEN Ignored
     ELSE /\ setFocusedColumn(Max(0, focusedColumnIndex - 1))
          /\ UNCHANGED <<modeVars, restVars, selVars, selectedIssueId,
                         focusedIssueIndex>>

KeyRight ==
  /\ IF viewMode # KANBAN THEN Ignored
     ELSE /\ setFocusedColumn(Min(Len(workflowStates) - 1,
                                  focusedColumnIndex + 1))
          /\ UNCHANGED <<modeVars, restVars, selVars, selectedIssueId,
                         focusedIssueIndex>>

KeyUp ==
  /\ IF viewMode # KANBAN THEN Ignored
     ELSE /\ setFocusedIssue(Max(0, focusedIssueIndex - 1))
          /\ UNCHANGED <<modeVars, restVars, selVars, selectedIssueId>>

KeyDown ==
  /\ viewMode = KANBAN => focusedIssueIndex < MaxRow
  /\ IF viewMode # KANBAN THEN Ignored
     ELSE /\ setFocusedIssue(focusedIssueIndex + 1)
          /\ UNCHANGED <<modeVars, restVars, selVars, selectedIssueId>>

\* issues.filter(issue => issue.state.id === stateId)
IssuesInState(iss, stateId) == SelectSeq(iss, LAMBDA i : i.state = stateId)

\* the issue the enter handler finds at the focus, as a sequence of 0 or 1
EnterIssue ==
  IF ~Defined(workflowStates, focusedColumnIndex) THEN <<>>
  ELSE LET columnIssues ==
             IssuesInState(issues, workflowStates[focusedColumnIndex + 1].id)
       IN IF Defined(columnIssues, focusedIssueIndex)
          THEN <<columnIssues[focusedIssueIndex + 1]>>
          ELSE <<>>

KeyEnter ==
  /\ CASE viewMode = KANBAN /\ EnterIssue # <<>> ->
            /\ selectedIssueId' = EnterIssue[1].id
            /\ setViewMode(DETAIL)
            /\ emitted' = <<Ev("issue-selected", EnterIssue[1].id),
                            Ev("view-mode-changed", DETAIL)>>
            /\ UNCHANGED <<boardVars, restVars, selVars, focusedIssueIndex>>
       [] viewMode = TEAM_SELECT /\ Defined(teams, focusedIssueIndex) ->
            \* changeTeam runs up to its first await, then the handler goes on
            /\ selectedTeamId' = teams[focusedIssueIndex + 1]
            /\ setViewMode(KANBAN)
            /\ emitted' = <<Ev("team-selected", teams[focusedIssueIndex + 1]),
                            Ev("view-mode-changed", KANBAN)>>
            /\ UNCHANGED <<boardVars, restVars, selectedAssigneeId,
                           selectedIssueId, focusedIssueIndex>>
       [] viewMode = FILTER /\ filterDimension = DIM_ASSIGNEE
            /\ Defined(users, focusedIssueIndex) ->
            /\ selectedAssigneeId' = users[focusedIssueIndex + 1]
            /\ setViewMode(KANBAN)
            /\ emitted' = <<Ev("assignee-selected",
                               users[focusedIssueIndex + 1]),
                            Ev("view-mode-changed", KANBAN)>>
            /\ UNCHANGED <<boardVars, restVars, selectedTeamId,
                           selectedIssueId, focusedIssueIndex>>
       [] graphFocused /\ selectedIssueId # Null ->
            \* the graph box's own enter binding
            /\ setViewMode(DETAIL)
            /\ emitted' = <<Ev("view-mode-changed", DETAIL)>>
            /\ UNCHANGED <<boardVars, restVars, selVars, selectedIssueId,
                           focusedIssueIndex>>
       [] OTHER -> Ignored

\* mutant: the help panel is missing from the escape binding
EscapeModes_noHelp == {DETAIL, TEAM_SELECT, FILTER, CREATE}

\* the modes the screen-level escape binding handles
EscapeModes == {DETAIL, TEAM_SELECT, FILTER, CREATE, HELP}

KeyEscape ==
  /\ LET screenEv == IF viewMode \in EscapeModes
                     THEN <<Ev("view-mode-changed", KANBAN)>> ELSE <<>>
         boxEv == IF detailFocused \/ graphFocused
                  THEN <<Ev("view-mode-changed", KANBAN)>> ELSE <<>>
     IN IF screenEv \o boxEv = <<>> THEN Ignored
        ELSE /\ setViewMode(KANBAN)
             /\ emitted' = screenEv \o boxEv
             /\ UNCHANGED <<boardVars, restVars, selVars, selectedIssueId,
                            focusedIssueIndex>>

\* mutant: the binding does not look at the view mode
KeyPanel_anyMode(mode) ==
  /\ setViewMode(mode)
  /\ emitted' = <<Ev("view-mode-changed", mode)>>
  /\ UNCHANGED <<boardVars, restVars, selVars, selectedIssueId,
                 focusedIssueIndex>>

\* t, f, n, ?: open a panel from the board
KeyPanel(mode) ==
  IF viewMode # KANBAN THEN Ignored
     ELSE /\ setViewMode(mode)
          /\ emitted' = <<Ev("view-mode-changed", mode)>>
          /\ UNCHANGED <<boardVars, restVars, selVars, selectedIssueId,
                         focusedIssueIndex>>

KeyT == KeyPanel(TEAM_SELECT)
KeyF == KeyPanel(FILTER)
KeyN == KeyPanel(CREATE)
KeyHelp == KeyPanel(HELP)

\* 1, 2, 3, 4: change the filter dimension
KeyDimension(dimension) ==
  /\ IF viewMode # KANBAN THEN Ignored
     ELSE /\ setFilterDimension(dimension)
          /\ UNCHANGED <<modeVars, restVars, selVars, selectedIssueId,
                         focusedIssueIndex>>

\* c: clear the assignee filter (setSelectedAssignee(null), then
\* changeAssignee(null) sets it again before its refresh)
KeyC ==
  /\ IF viewMode # KANBAN THEN Ignored
     ELSE /\ selectedAssigneeId' = Null
          /\ emitted' = <<Ev("assignee-selected", Null),
                          Ev("assignee-selected", Null)>>
          /\ UNCHANGED <<boardVars, modeVars, restVars, selectedTeamId,
                         selectedIssueId, focusedIssueIndex>>

\* mutant: the binding reopens the detail view instead of the graph
KeyG_detail ==
  IF detailFocused /\ selectedIssueId # Null
  THEN /\ setViewMode(DETAIL)
       /\ emitted' = <<Ev("view-mode-changed", DETAIL)>>
       /\ UNCHANGED <<boardVars, restVars, selVars, selectedIssueId,
                      focusedIssueIndex>>
  ELSE Ignored

\* g: the detail box's show-graph binding
KeyG ==
  /\ IF detailFocused /\ selectedIssueId # Null
     THEN /\ setViewMode(RELATIONSHIP_GRAPH)
          /\ emitted' = <<Ev("view-mode-changed", RELATIONSHIP_GRAPH)>>
          /\ UNCHANGED <<boardVars, restVars, selVars, selectedIssueId,
                         focusedIssueIndex>>
     ELSE Ignored

\* mutant: the click opens the detail view and selects nothing
CardClick_noSelect(c, r) ==
  /\ c \in 1..Len(columns)
  /\ r \in 1..Len(columns[c].issues)
  /\ setViewMode(DETAIL)
  /\ emitted' = <<Ev("view-mode-changed", DETAIL)>>
  /\ UNCHANGED <<boardVars, restVars, selVars, selectedIssueId,
                 focusedIssueIndex>>

\* a click on the card at row r of column c of the rendered board
CardClick(c, r) ==
  /\ c \in 1..Len(columns)
  /\ r \in 1..Len(columns[c].issues)
  /\ selectedIssueId' = columns[c].issues[r].id
  /\ setViewMode(DETAIL)
  /\ emitted' = <<Ev("issue-selected", columns[c].issues[r].id),
                  Ev("view-mode-changed", DETAIL)>>
  /\ UNCHANGED <<boardVars, restVars, selVars, focusedIssueIndex>>

----------------------------------------------------------------------------
Next ==
  \/ \E ws \in StateSnapshots : LoadStates(ws)
  \/ \E iss \in IssueSnapshots : LoadIssues(iss)
  \/ KeyLeft
  \/ KeyRight
  \/ KeyUp
  \/ KeyDown
  \/ KeyEnter
  \/ KeyEscape
  \/ KeyT
  \/ KeyF
  \/ KeyN
  \/ KeyHelp
  \/ \E d \in FilterDimension : KeyDimension(d)
  \/ KeyC
  \/ KeyG
  \/ \E c \in 1..Len(columns) : \E r \in 1..Len(columns[c].issues) :
       CardClick(c, r)

Spec == Init /\ [][Next]_vars

----------------------------------------------------------------------------
(* The grouping engine on every issue list and every workflow-state list:  *)
(* the board right after the first refresh of a session (setWorkflowStates *)
(* then setIssues, grouped by state), then regrouped by the keys 1-4       *)

InitGroup ==
  \E ws \in StateLists : \E iss \in IssueLists :
    LET r == renderBoard(iss, ws, DIM_STATE, 0)
    IN /\ issues = iss
       /\ teams = <<>>
       /\ users = <<>>
       /\ workflowStates = r.workflowStates
       /\ selectedTeamId = Null
       /\ selectedIssueId = Null
       /\ selectedAssigneeId = Null
       /\ viewMode = KANBAN
       /\ filterDimension = DIM_STATE
       /\ focusedColumnIndex = r.focusedColumnIndex
       /\ focusedIssueIndex = 0
       /\ columns = r.columns
       /\ noIssuesBox = [shown |-> r.placeholder, stale |-> TRUE]
       /\ detailShown = FALSE
       /\ graphShown = FALSE
       /\ emitted = <<Ev("issues-updated", iss)>> \o r.events
       /\ focused = "none"
       /\ warningShown = FALSE
       /\ running = TRUE
       /\ AsyncIdle
       /\ SideIdle

NextGroup == \E d \in FilterDimension : KeyDimension(d)

GroupSpec == InitGroup /\ [][NextGroup]_vars

----------------------------------------------------------------------------
(* The relationships session (showEnhancedKanbanRelationships): an issue   *)
(* selector, the relationship graph box and the detail box over a state    *)
(* object of its own, with screen-level bindings for s, g, d, escape       *)

\* the issue list the session loads before it builds its screen
RelIssueSnapshots == { Prefix(IssueFeed, n) : n \in 0..MaxIssues }

InitRel ==
  \E iss \in RelIssueSnapshots :
    /\ issues = iss
    /\ teams = <<>>
    /\ users = <<>>
    /\ workflowStates = <<>>
    /\ selectedTeamId = Null
    /\ selectedIssueId = Null
    /\ selectedAssigneeId = Null
    /\ viewMode = RELATIONSHIP_GRAPH
    /\ filterDimension = DIM_STATE
    /\ focusedColumnIndex = 0
    /\ focusedIssueIndex = 0
    /\ columns = <<>>
    /\ noIssuesBox = [shown |-> FALSE, stale |-> FALSE]
    /\ detailShown = FALSE
    /\ graphShown = FALSE
    /\ emitted = <<>>
    /\ focused = "issueSelector"
    /\ warningShown = FALSE
    /\ running = TRUE
    /\ AsyncIdle
    /\ SideIdle

relBoardVars == <<issues, teams, users, workflowStates, selectedTeamId,
                  selectedAssigneeId, filterDimension, focusedColumnIndex,
                  focusedIssueIndex, columns, noIssuesBox, asyncVars,
                  sideVars>>

\* the widget the session's view-mode subscriber gives the focus to
FocusOf(mode) ==
  CASE mode = KANBAN -> "issueSelector"
    [] mode = RELATIONSHIP_GRAPH -> "relationshipGraph"
    [] mode = DETAIL -> "detailView"
    [] OTHER -> focused

\* state.setViewMode(mode) of the session and its three subscribers
relSetViewMode(mode) ==
  /\ setViewMode(mode)
  /\ focused' = FocusOf(mode)

\* the selector's 'select' event on the list item at index
RelSelect(index) ==
  /\ running
  /\ focused = "issueSelector"
  /\ Defined(issues, index)
  /\ selectedIssueId' = issues[index + 1].id
  /\ relSetViewMode(RELATIONSHIP_GRAPH)
  /\ emitted' = <<Ev("issue-selected", issues[index + 1].id),
                  Ev("view-mode-changed", RELATIONSHIP_GRAPH)>>
  /\ UNCHANGED <<relBoardVars, warningShown, running>>

\* s: back to the issue selector
RelKeyS ==
  /\ running
  /\ detailShown' = FALSE
  /\ graphShown' = FALSE
  /\ focused' = "issueSelector"
  /\ emitted' = <<>>
  /\ UNCHANGED <<relBoardVars, selectedIssueId, viewMode, warningShown,
                 running>>

\* mutant: the screen-level binding does not test the selection
RelKeyG_noTest ==
  /\ running
  /\ relSetViewMode(RELATIONSHIP_GRAPH)
  /\ emitted' = <<Ev("view-mode-changed", RELATIONSHIP_GRAPH)>>
  /\ UNCHANGED <<relBoardVars, selectedIssueId, warningShown, running>>

\* g: the screen-level show-graph binding, then the detail box's own
RelKeyG ==
  /\ running
  /\ IF selectedIssueId # Null
     THEN /\ relSetViewMode(RELATIONSHIP_GRAPH)
          /\ emitted' =
               <<Ev("view-mode-changed", RELATIONSHIP_GRAPH)>>
               \o (IF focused = "detailView"
                   THEN <<Ev("view-mode-changed", RELATIONSHIP_GRAPH)>>
                   ELSE <<>>)
          /\ UNCHANGED <<relBoardVars, selectedIssueId, warningShown,
                         running>>
     ELSE /\ warningShown' = TRUE
          /\ focused' = "issueSelector"
          /\ emitted' = <<>>
          /\ UNCHANGED <<relBoardVars, modeVars, selectedIssueId, running>>

\* d: the screen-level show-detail binding
RelKeyD ==
  /\ running
  /\ IF selectedIssueId # Null
     THEN /\ relSetViewMode(DETAIL)
          /\ emitted' = <<Ev("view-mode-changed", DETAIL)>>
          /\ UNCHANGED <<relBoardVars, selectedIssueId, warningShown,
                         running>>
     ELSE /\ warningShown' = TRUE
          /\ focused' = "issueSelector"
          /\ emitted' = <<>>
          /\ UNCHANGED <<relBoardVars, modeVars, selectedIssueId, running>>

\* enter on the focused graph box
RelGraphEnter ==
  /\ running
  /\ focused = "relationshipGraph"
  /\ IF selectedIssueId # Null
     THEN /\ relSetViewMode(DETAIL)
          /\ emitted' = <<Ev("view-mode-changed", DETAIL)>>
     ELSE /\ emitted' = <<>>
          /\ UNCHANGED <<modeVars, focused>>
  /\ UNCHANGED <<relBoardVars, selectedIssueId, warningShown, running>>

\* the message hides itself after its display time
RelWarningTimeout ==
  /\ running
  /\ warningShown
  /\ warningShown' = FALSE
  /\ emitted' = <<>>
  /\ UNCHANGED <<relBoardVars, modeVars, selectedIssueId, focused, running>>

\* escape, q, C-c: destroy the screen and exit
RelKeyEscape ==
  /\ running
  /\ running' = FALSE
  /\ emitted' = <<>>
  /\ UNCHANGED <<relBoardVars, modeVars, selectedIssueId, focused,
                 warningShown>>

NextRel ==
  \/ \E index \in 0..(MaxIssues - 1) : RelSelect(index)
  \/ RelKeyS
  \/ RelKeyG
  \/ RelKeyD
  \/ RelGraphEnter
  \/ RelWarningTimeout
  \/ RelKeyEscape

RelSpec == InitRel /\ [][NextRel]_vars

----------------------------------------------------------------------------
(* The remote service behind LinearApiService: the issues it holds, with   *)
(* their parent, their blocks list and their typed relations               *)

\* most issues the remote service holds
MaxRemote == 2

\* getIssues' default for params.limit
DefaultLimit == 100

\* IssueRelationType
BLOCKS == "blocks"
RELATED == "related"

IssueById(id) == CHOOSE i \in LinearIssue : i.id = id

\* an issue of the remote service that has no relation yet
RemoteNode(id) ==
  [id |-> id, parent |-> Null, blocks |-> <<>>, relations |-> <<>>]

RemoteLists ==
  { [k \in DOMAIN l |-> RemoteNode(l[k])] :
      l \in DistinctSeqs({"i1", "i2", "i3"}, MaxRemote) }

\* the relatedTo list getIssues derives from the relations of a node
RelatedTo(relations) ==
  LET r == SelectSeq(relations, LAMBDA rel : rel.type = "relates_to")
  IN [k \in 1..Len(r) |-> r[k].relatedIssue]

\* the LinearIssue getIssues builds from a node of the answer
Transform(node) ==
  [IssueById(node.id) EXCEPT !.parent = node.parent,
                             !.blocking = node.blocks,
                             !.relatedTo = RelatedTo(node.relations)]

\* getIssues(params) when the request succeeds: params.limit is read,
\* params.filter is not among the parameters the method reads
getIssues(params) ==
  Prefix([k \in 1..Len(remote) |-> Transform(remote[k])], params.limit)

HasNode(id) == \E k \in 1..Len(remote) : remote[k].id = id

\* the relations the remote service holds, each under its relation id
RelationIds ==
  UNION { { [issueId |-> remote[k].id, type |-> BLOCKS,
             relatedIssueId |-> remote[k].blocks[j]]
            : j \in 1..Len(remote[k].blocks) }
          \cup
          { [issueId |-> remote[k].id, type |-> remote[k].relations[j].type,
             relatedIssueId |-> remote[k].relations[j].relatedIssue]
            : j \in 1..Len(remote[k].relations) }
          : k \in 1..Len(remote) }

\* a relation id the remote service does not know
UnknownRelation ==
  [issueId |-> "i1", type |-> RELATED, relatedIssueId |-> "i1"]

\* setParentIssue({issueId, parentId}) answered with success
setParentIssue(issueId, parentId) ==
  [k \in 1..Len(remote) |->
     IF remote[k].id = issueId THEN [remote[k] EXCEPT !.parent = parentId]
     ELSE remote[k]]

\* createIssueRelation({issueId, relatedIssueId, type}) answered with success
createIssueRelation(issueId, relatedIssueId, type) ==
  [k \in 1..Len(remote) |->
     IF remote[k].id # issueId THEN remote[k]
     ELSE IF type = BLOCKS
     THEN [remote[k] EXCEPT !.blocks = Append(@, relatedIssueId)]
     ELSE [remote[k] EXCEPT !.relations =
             Append(@, [type |-> type, relatedIssue |-> relatedIssueId])]]

\* deleteIssueRelation(relationId) answered with success
deleteIssueRelation(r) ==
  [k \in 1..Len(remote) |->
     IF remote[k].id # r.issueId THEN remote[k]
     ELSE IF r.type = BLOCKS
     THEN [remote[k] EXCEPT !.blocks =
             SelectSeq(@, LAMBDA b : b # r.relatedIssueId)]
     ELSE [remote[k] EXCEPT !.relations =
             SelectSeq(@, LAMBDA rel :
               ~(rel.type = r.type /\ rel.relatedIssue = r.relatedIssueId))]]

----------------------------------------------------------------------------
(* The relation pipeline (kanban/utils/issueRelations.ts) and the          *)
(* single-issue refresh (refreshIssue).  One action runs an operation from *)
(* one await to the next; the answer of the remote call it awaited is the  *)
(* action's input.                                                         *)

\* the identifiers a user types into the prompt
Identifiers == {"ENG-1", "ENG-2", "UNKNOWN-1"}

\* the message of the Error thrown when the lookup returns null
CouldNotFind_unknown(identifier) == "Unknown error setting parent relation"

CouldNotFind(identifier) ==
  CASE identifier = "ENG-1" -> "Could not find issue with identifier ENG-1"
    [] identifier = "ENG-2" -> "Could not find issue with identifier ENG-2"
    [] OTHER -> "Could not find issue with identifier UNKNOWN-1"

\* error.message of a rejected request
RemoteError == "request to https://api.linear.app/graphql failed"

LookupKinds ==
  {"setParentRelation", "createBlockingRelation", "createRelatedRelation"}

MutationOf(kind) ==
  CASE kind = "setParentRelation" -> "setParentIssue"
    [] kind = "deleteRelation" -> "deleteIssueRelation"
    [] OTHER -> "createIssueRelation"

Call(name, target) == [name |-> name, target |-> target]

\* getIssueIdFromIdentifier(identifier): ok tells whether the request was
\* answered (TRUE) or rejected (FALSE)
getIssueIdFromIdentifier(ok, identifier) ==
  LET result == getIssues([limit |-> DefaultLimit,
                           filter |-> [identifier |-> identifier]])
  IN IF ~ok THEN Null
     ELSE IF Len(result) > 0 THEN result[1].id ELSE Null

relOpVars == <<teams, users, selectedTeamId, selectedIssueId,
               selectedAssigneeId, modeVars, focusedIssueIndex, focused,
               warningShown, running, pending, history, sideVars>>

\* entry of setParentRelation, createBlockingRelation, createRelatedRelation
\* up to the await of the lookup
RelationStart(kind, identifier) ==
  /\ task.pc = "idle"
  /\ isLoading' = TRUE
  /\ task' = [NoTask EXCEPT !.pc = "lookup", !.kind = kind,
                            !.issueId = selectedIssueId,
                            !.identifier = identifier,
                            !.calls = <<Call("getIssues", identifier)>>,
                            !.before = issues]
  /\ emitted' = <<Ev("loading-changed", TRUE)>>
  /\ UNCHANGED <<boardVars, relOpVars, error, remote>>

\* entry of deleteRelation up to the await of the mutation
DeleteStart(relationId) ==
  /\ task.pc = "idle"
  /\ isLoading' = TRUE
  /\ task' = [NoTask EXCEPT !.pc = "mutate", !.kind = "deleteRelation",
                            !.issueId = selectedIssueId,
                            !.relationId = relationId,
                            !.calls = <<Call("deleteIssueRelation",
                                             selectedIssueId)>>,
                            !.before = issues]
  /\ emitted' = <<Ev("loading-changed", TRUE)>>
  /\ UNCHANGED <<boardVars, relOpVars, error, remote>>

\* the catch block and the finally block of a relation operation
Caught_noFinally(message, lookup) ==
  /\ error' = message
  /\ task' = [task EXCEPT !.pc = "done", !.result = "false",
                          !.message = message, !.lookup = lookup]
  /\ emitted' = <<Ev("error-changed", message)>>
  /\ UNCHANGED <<boardVars, relOpVars, remote, isLoading>>

Caught(message, lookup) ==
  /\ error' = message
  /\ isLoading' = FALSE
  /\ task' = [task EXCEPT !.pc = "done", !.result = "false",
                          !.message = message, !.lookup = lookup]
  /\ emitted' = <<Ev("error-changed", message), Ev("loading-changed", FALSE)>>
  /\ UNCHANGED <<boardVars, relOpVars, remote>>

\* the lookup returns: null throws, an id goes on to the mutation
LookupDone_noThrow(ok) ==
  /\ task.pc = "lookup"
  /\ task' = [task EXCEPT !.pc = "mutate",
                !.resolved = getIssueIdFromIdentifier(ok, task.identifier),
                !.lookup = IF ~ok THEN "failed"
                           ELSE IF getIssueIdFromIdentifier(ok,
                                     task.identifier) = Null
                                THEN "none" ELSE "found",
                !.calls = Append(@, Call(MutationOf(task.kind),
                                         task.issueId))]
  /\ emitted' = <<>>
  /\ UNCHANGED <<boardVars, relOpVars, isLoading, error, remote>>

LookupDone(ok) ==
  /\ task.pc = "lookup"
  /\ LET id == getIssueIdFromIdentifier(ok, task.identifier)
     IN IF id = Null
        THEN Caught(CouldNotFind(task.identifier),
                    IF ok THEN "none" ELSE "failed")
        ELSE /\ task' = [task EXCEPT !.pc = "mutate", !.resolved = id,
                           !.lookup = "found",
                           !.calls = Append(@, Call(MutationOf(task.kind),
                                                    task.issueId))]
             /\ emitted' = <<>>
             /\ UNCHANGED <<boardVars, relOpVars, isLoading, error, remote>>

\* can the remote service carry the mutation out
Accepts ==
  CASE task.kind = "setParentRelation" ->
         HasNode(task.issueId) /\ HasNode(task.resolved)
    [] task.kind = "deleteRelation" -> task.relationId \in RelationIds
    [] OTHER ->
         /\ HasNode(task.issueId) /\ HasNode(task.resolved)
         /\ [issueId |-> task.issueId,
             type |-> IF task.kind = "createBlockingRelation" THEN BLOCKS
                      ELSE RELATED,
             relatedIssueId |-> task.resolved] \notin RelationIds

\* the remote service after the mutation
Mutated ==
  CASE task.kind = "setParentRelation" ->
         setParentIssue(task.issueId, task.resolved)
    [] task.kind = "createBlockingRelation" ->
         createIssueRelation(task.issueId, task.resolved, BLOCKS)
    [] task.kind = "createRelatedRelation" ->
         createIssueRelation(task.issueId, task.resolved, RELATED)
    [] OTHER -> deleteIssueRelation(task.relationId)

\* the mutation returns: rejected ("reject"), answered with success = false
\* ("refused") or carried out ("ok"), which goes on to refreshIssue
MutateDone(outcome) ==
  /\ task.pc = "mutate"
  /\ CASE outcome = "reject" -> Caught(RemoteError, task.lookup)
       [] outcome = "refused" ->
            /\ isLoading' = FALSE
            /\ task' = [task EXCEPT !.pc = "done", !.result = "false"]
            /\ emitted' = <<Ev("loading-changed", FALSE)>>
            /\ UNCHANGED <<boardVars, relOpVars, error, remote>>
       [] OTHER ->
            /\ Accepts
            /\ remote' = Mutated
            /\ task' = [task EXCEPT !.pc = "refresh",
                          !.calls = Append(@, Call("refreshIssue",
                                                   task.issueId))]
            /\ emitted' = <<>>
            /\ UNCHANGED <<boardVars, relOpVars, isLoading, error>>

\* state.issues.map(issue => issue.id === updatedIssue.id ? updatedIssue
\* : issue)
ReplaceById(iss, updatedIssue) ==
  [k \in 1..Len(iss) |->
     IF iss[k].id = updatedIssue.id THEN updatedIssue ELSE iss[k]]

\* refreshIssue(issueId) returns (ok: its request was answered), then the
\* operation returns true through its finally block
RefreshDone(ok) ==
  /\ task.pc = "refresh"
  /\ LET result == getIssues([limit |-> 1,
                              filter |-> [id |-> task.issueId]])
         done == <<Ev("loading-changed", FALSE)>>
     IN IF ok /\ Len(result) > 0
        THEN LET updatedIssues == ReplaceById(issues, result[1])
                 r == renderBoard(updatedIssues, workflowStates,
                                  filterDimension, focusedColumnIndex)
             IN /\ issues' = updatedIssues
                /\ workflowStates' = r.workflowStates
                /\ focusedColumnIndex' = r.focusedColumnIndex
                /\ columns' = r.columns
                /\ noIssuesBox' = appendNoIssuesBox(r)
                /\ emitted' = <<Ev("issues-updated", updatedIssues)>>
                                \o r.events \o done
                /\ UNCHANGED filterDimension
        ELSE /\ emitted' = done
             /\ UNCHANGED boardVars
  /\ isLoading' = FALSE
  /\ task' = [task EXCEPT !.pc = "done", !.result = "true",
                          !.refresh = IF ok THEN "answered" ELSE "failed"]
  /\ UNCHANGED <<relOpVars, error, remote>>

\* the caller's then-callback has run; the next operation can start
RelationReturn ==
  /\ task.pc = "done"
  /\ task' = NoTask
  /\ emitted' = <<>>
  /\ UNCHANGED <<boardVars, relOpVars, isLoading, error, remote>>

\* a session whose detail view shows a selected issue: the local issue list
\* is the last answer of the remote service, which has lost its issues
\* since when it holds none now
InitRelOp ==
  \E rem \in RemoteLists :
  \E loc \in {IF rem = <<>> THEN <<RemoteNode("i1")>> ELSE rem} :
  \E sel \in 1..Len(loc) :
    LET iss == [k \in 1..Len(loc) |-> Transform(loc[k])]
        r == renderBoard(iss, StateFeed, DIM_STATE, 0)
    IN /\ issues = iss
       /\ teams = <<>>
       /\ users = <<>>
       /\ workflowStates = r.workflowStates
       /\ selectedTeamId = Null
       /\ selectedIssueId = loc[sel].id
       /\ selectedAssigneeId = Null
       /\ viewMode = DETAIL
       /\ filterDimension = DIM_STATE
       /\ focusedColumnIndex = r.focusedColumnIndex
       /\ focusedIssueIndex = 0
       /\ columns = r.columns
       /\ noIssuesBox = [shown |-> r.placeholder, stale |-> TRUE]
       /\ detailShown = TRUE
       /\ graphShown = FALSE
       /\ emitted = <<>>
       /\ focused = "none"
       /\ warningShown = FALSE
       /\ running = TRUE
       /\ isLoading = FALSE
       /\ error = Null
       /\ remote = rem
       /\ task = NoTask
       /\ pending = <<>>
       /\ history = NoHistory
       /\ SideIdle

NextRelOp ==
  \/ \E kind \in LookupKinds : \E identifier \in Identifiers :
       RelationStart(kind, identifier)
  \/ \E relationId \in RelationIds \cup {UnknownRelation} :
       DeleteStart(relationId)
  \/ \E ok \in BOOLEAN : LookupDone(ok)
  \/ \E outcome \in {"reject", "refused", "ok"} : MutateDone(outcome)
  \/ \E ok \in BOOLEAN : RefreshDone(ok)
  \/ RelationReturn

RelOpSpec == InitRelOp /\ [][NextRelOp]_vars

\* the same session with the way from one selected issue to another: escape
\* closes the detail view, a click on a card opens it on the card's issue
NextRelNav ==
  \/ viewMode = DETAIL /\ NextRelOp
  \/ task.pc = "idle" /\ KeyEscape
  \/ \E c \in 1..MaxRemote : \E r \in 1..MaxRemote :
       viewMode = KANBAN /\ CardClick(c, r)

RelNavSpec == InitRelOp /\ [][NextRelNav]_vars

----------------------------------------------------------------------------
(* The data refresher (kanban/utils/dataRefresher.ts): refreshData and     *)
(* refreshIssues.  A call is started by one action and resumed by one      *)
(* action for each remote request it awaits; nothing keeps a second call   *)
(* from starting while a first one waits.                                  *)

\* most refresh calls started before all of them have completed
MaxCalls == 2

\* the message refreshIssues records for an empty answer
NoIssuesFound == "No issues found with the current filters"

TeamFeed == <<[id |-> "t1", name |-> "Eng"]>>
UserFeed == <<[id |-> "u1", name |-> "Ann"]>>
TeamSnapshots == {TeamFeed}
UserSnapshots == {UserFeed}
\* the workflow states of a team that has none and of one that has some
TeamStateSnapshots == {<<>>, Prefix(StateFeed, MaxFetchedStates)}

\* the answers the request a call waits for can get
Answers(pc) ==
  CASE pc = "teams" -> TeamSnapshots
    [] pc = "users" -> UserSnapshots
    [] pc = "states" -> TeamStateSnapshots
    [] OTHER -> IssueSnapshots

\* the data set the request a call waits for is fetched into
DataSet(pc) ==
  CASE pc = "teams" -> teams
    [] pc = "users" -> users
    [] pc = "states" -> workflowStates
    [] OTHER -> issues

\* the completion of a call: ok tells whether its last request was
\* answered, answer is the answer of an answered issue fetch
Completed(call, ok, answer) ==
  [order |-> Append(history.order, call.id),
   last |-> [id |-> call.id, kind |-> call.kind, pc |-> call.pc, ok |-> ok,
             issues |-> answer]]

\* the calls started since the last moment at which none was in flight
Started == Len(history.order) + Len(pending)

\* the data sets as a call that starts alone finds them
Snapshot ==
  [teams |-> teams, users |-> users, states |-> workflowStates,
   issues |-> issues]
NoSnapshot ==
  [teams |-> <<>>, users |-> <<>>, states |-> <<>>, issues |-> <<>>]

Remove(list, i) == SubSeq(list, 1, i - 1) \o SubSeq(list, i + 1, Len(list))

refreshVars == <<selectedTeamId, selectedIssueId, selectedAssigneeId,
                 modeVars, focusedIssueIndex, focused, warningShown, running,
                 remote, task, sideVars>>

\* entry of refreshData or refreshIssues up to its first await
RefreshStart(kind) ==
  /\ pending = <<>> \/ Started < MaxCalls
  /\ LET h == IF pending = <<>> THEN NoHistory ELSE history
         call == [id |-> Len(h.order) + Len(pending) + 1, kind |-> kind,
                  pc |-> IF kind = "refreshIssues" THEN "issues"
                         ELSE IF Len(teams) = 0 THEN "teams"
                         ELSE IF Len(users) = 0 THEN "users"
                         ELSE "states",
                  before |-> IF pending = <<>> THEN Snapshot
                             ELSE NoSnapshot]
     IN /\ pending' = Append(pending, call)
        /\ history' = h
  /\ isLoading' = TRUE
  /\ error' = Null
  /\ emitted' = <<Ev("loading-changed", TRUE), Ev("error-changed", Null)>>
  /\ UNCHANGED <<boardVars, teams, users, refreshVars>>

\* the awaited request is rejected: catch block, finally block
FetchFailed_silent(i) ==
  /\ isLoading' = FALSE
  /\ pending' = Remove(pending, i)
  /\ history' = Completed(pending[i], FALSE, <<>>)
  /\ emitted' = <<Ev("loading-changed", FALSE)>>
  /\ UNCHANGED <<boardVars, teams, users, refreshVars, error>>

FetchFailed(i) ==
  /\ error' = RemoteError
  /\ isLoading' = FALSE
  /\ pending' = Remove(pending, i)
  /\ history' = Completed(pending[i], FALSE, <<>>)
  /\ emitted' = <<Ev("error-changed", RemoteError),
                  Ev("loading-changed", FALSE)>>
                 \o IF pending[i].kind = "refreshData"
                       /\ pending[i].pc = "issues"
                    THEN <<Ev("loading-changed", FALSE)>> ELSE <<>>
  /\ UNCHANGED <<boardVars, teams, users, refreshVars>>

\* the issue fetch is answered: setIssues, the error for an empty answer,
\* the finally blocks
IssuesFetched_latestOnly(i, answer) ==
  /\ IF pending[i].id = Started
     THEN LET r == renderBoard(answer, workflowStates, filterDimension,
                               focusedColumnIndex)
          IN /\ issues' = answer
             /\ workflowStates' = r.workflowStates
             /\ focusedColumnIndex' = r.focusedColumnIndex
             /\ columns' = r.columns
             /\ noIssuesBox' = appendNoIssuesBox(r)
             /\ UNCHANGED filterDimension
     ELSE UNCHANGED boardVars
  /\ error' = IF Len(answer) = 0 THEN NoIssuesFound ELSE error
  /\ emitted' = <<Ev("loading-changed", FALSE)>>
  /\ isLoading' = FALSE
  /\ pending' = Remove(pending, i)
  /\ history' = Completed(pending[i], TRUE, answer)
  /\ UNCHANGED <<teams, users, refreshVars>>

IssuesFetched(i, answer) ==
  /\ LET r == renderBoard(answer, workflowStates, filterDimension,
                          focusedColumnIndex)
     IN /\ issues' = answer
        /\ workflowStates' = r.workflowStates
        /\ focusedColumnIndex' = r.focusedColumnIndex
        /\ columns' = r.columns
        /\ noIssuesBox' = appendNoIssuesBox(r)
        /\ emitted' = <<Ev("issues-updated", answer)>> \o r.events
             \o (IF Len(answer) = 0
                 THEN <<Ev("error-changed", NoIssuesFound)>> ELSE <<>>)
             \o <<Ev("loading-changed", FALSE)>>
             \o (IF pending[i].kind = "refreshData"
                 THEN <<Ev("loading-changed", FALSE)>> ELSE <<>>)
        /\ UNCHANGED filterDimension
  /\ error' = IF Len(answer) = 0 THEN NoIssuesFound ELSE error
  /\ isLoading' = FALSE
  /\ pending' = Remove(pending, i)
  /\ history' = Completed(pending[i], TRUE, answer)
  /\ UNCHANGED <<teams, users, refreshVars>>

\* the awaited request is answered: the setter of its data set, then the
\* call goes on to its next await or completes
FetchAnswered(i, answer) ==
  LET call == pending[i]
  IN CASE call.pc = "teams" ->
            /\ teams' = answer
            /\ pending' = [pending EXCEPT ![i].pc =
                             IF Len(users) = 0 THEN "users" ELSE "states"]
            /\ emitted' = <<Ev("teams-updated", answer)>>
            /\ UNCHANGED <<boardVars, users, refreshVars, isLoading, error,
                           history>>
       [] call.pc = "users" ->
            /\ users' = answer
            /\ pending' = [pending EXCEPT ![i].pc = "states"]
            /\ emitted' = <<Ev("users-updated", answer)>>
            /\ UNCHANGED <<boardVars, teams, refreshVars, isLoading, error,
                           history>>
       [] call.pc = "states" ->
            /\ LET r == renderBoard(issues, answer, filterDimension,
                                    focusedColumnIndex)
               IN /\ workflowStates' = r.workflowStates
                  /\ focusedColumnIndex' = r.focusedColumnIndex
                  /\ columns' = r.columns
                  /\ noIssuesBox' = appendNoIssuesBox(r)
                  /\ emitted' = <<Ev("states-updated", answer)>> \o r.events
                       \o <<Ev("loading-changed", TRUE),
                            Ev("error-changed", Null)>>
                  /\ UNCHANGED <<issues, filterDimension>>
            /\ isLoading' = TRUE
            /\ error' = Null
            /\ pending' = [pending EXCEPT ![i].pc = "issues"]
            /\ UNCHANGED <<teams, users, refreshVars, history>>
       [] OTHER -> IssuesFetched(i, answer)

NextRefresh ==
  \/ \E kind \in {"refreshData", "refreshIssues"} : RefreshStart(kind)
  \/ \E i \in 1..Len(pending) : FetchFailed(i)
  \/ \E i \in 1..Len(pending) : \E answer \in Answers(pending[i].pc) :
       FetchAnswered(i, answer)

RefreshSpec == Init /\ [][NextRefresh]_vars

----------------------------------------------------------------------------
(* changeTeam (kanban/utils/dataRefresher.ts).  The call sets the selected *)
(* team, awaits the workflow states of the team it was given, and then     *)
(* runs refreshIssues, which asks for the issues of the team selected at   *)
(* that moment.  A second call can start while a first one waits.  Every   *)
(* request is answered here; FetchFailed of the refresher shows what a     *)
(* rejected request does.                                                  *)

\* what the remote service holds for a team: its workflow states and its
\* issues, in the order it returns them
TeamData(teamId) ==
  IF teamId = "t1"
  THEN [states |-> SubSeq(StateFeed, 1, 2), issues |-> SubSeq(IssueFeed, 1, 1)]
  ELSE [states |-> SubSeq(StateFeed, 2, 3), issues |-> SubSeq(IssueFeed, 3, 4)]

\* a board session whose team list is loaded, no team selected yet
InitTeam ==
  /\ issues = <<>>
  /\ teams = <<[id |-> "t1", name |-> "Eng"], [id |-> "t2", name |-> "Ops"]>>
  /\ users = <<>>
  /\ workflowStates = <<>>
  /\ selectedTeamId = Null
  /\ selectedIssueId = Null
  /\ selectedAssigneeId = Null
  /\ viewMode = KANBAN
  /\ filterDimension = DIM_STATE
  /\ focusedColumnIndex = 0
  /\ focusedIssueIndex = 0
  /\ columns = <<>>
  /\ noIssuesBox = [shown |-> TRUE, stale |-> FALSE]
  /\ detailShown = FALSE
  /\ graphShown = FALSE
  /\ emitted = <<>>
  /\ focused = "none"
  /\ warningShown = FALSE
  /\ running = TRUE
  /\ AsyncIdle
  /\ SideIdle

NextTeam ==
  \* changeTeam(teamId) up to the await of getWorkflowStates(teamId)
  \/ \E k \in 1..Len(teams) :
       /\ pending = <<>> \/ Started < MaxCalls
       /\ selectedTeamId' = teams[k].id
       /\ selectedTeamName' = teams[k].name
       /\ pending' = Append(pending,
            [id |-> (IF pending = <<>> THEN 0 ELSE Len(history.order))
                      + Len(pending) + 1,
             kind |-> "changeTeam", pc |-> "states", team |-> teams[k].id])
       /\ history' = IF pending = <<>> THEN NoHistory ELSE history
       /\ emitted' = <<Ev("team-selected", teams[k].id)>>
       /\ UNCHANGED <<boardVars, teams, users, selectedIssueId,
                      selectedAssigneeId, modeVars, focusedIssueIndex,
                      focused, warningShown, running, remote, task,
                      selectedStateId, startDate, endDate, graphVars,
                      standaloneVars,
                      isLoading, error>>
  \* getWorkflowStates is answered: setWorkflowStates, then refreshIssues
  \* up to the await of getIssues for the team selected now
  \/ \E i \in 1..Len(pending) :
       /\ pending[i].pc = "states"
       /\ LET answer == TeamData(pending[i].team).states
              r == renderBoard(issues, answer, filterDimension,
                               focusedColumnIndex)
          IN /\ workflowStates' = r.workflowStates
             /\ focusedColumnIndex' = r.focusedColumnIndex
             /\ columns' = r.columns
             /\ noIssuesBox' = appendNoIssuesBox(r)
             /\ emitted' = <<Ev("states-updated", answer)>> \o r.events
                  \o <<Ev("loading-changed", TRUE), Ev("error-changed", Null)>>
             /\ UNCHANGED <<issues, filterDimension>>
       /\ isLoading' = TRUE
       /\ error' = Null
       /\ pending' = [pending EXCEPT ![i].pc = "issues",
                                     ![i].team = selectedTeamId]
       /\ UNCHANGED <<teams, users, refreshVars, history>>
  \* getIssues is answered with the issues of the team it was asked for
  \/ \E i \in 1..Len(pending) :
       /\ pending[i].pc = "issues"
       /\ IssuesFetched(i, TeamData(pending[i].team).issues)
       /\ UNCHANGED selectedTeamName

TeamSpec == InitTeam /\ [][NextTeam]_vars

----------------------------------------------------------------------------
(* The standalone board (kanban/index.ts): its navigation state is held in *)
(* local variables of the command, moved by the arrow keys and rebuilt by  *)
(* fetchData.  fetchData has one await, the request; what follows the      *)
(* answer runs in one piece.  A request that fails or returns no team      *)
(* throws before any variable is assigned.                                 *)

\* the state object and the widgets of the board session, unused here
sessionVars == <<boardVars, teams, users, selVars, selectedIssueId,
                 focusedIssueIndex, modeVars, focused, warningShown, running,
                 asyncVars, fieldVars, graphVars, emitted>>

\* mutant: every column starts with its first card selected
InitialCardIndex_first(stateIssueList) == 0

\* the selected card index a column starts with
InitialCardIndex(stateIssueList) ==
  IF Len(stateIssueList) > 0 THEN 0 ELSE -1

NextStandalone ==
  \* left
  \/ /\ currentColumnIndex > 0
     /\ currentColumnIndex' = currentColumnIndex - 1
     /\ UNCHANGED <<sessionVars, states, stateIssues, currentCardIndices>>
  \* right
  \/ /\ currentColumnIndex < Len(states) - 1
     /\ currentColumnIndex' = currentColumnIndex + 1
     /\ UNCHANGED <<sessionVars, states, stateIssues, currentCardIndices>>
  \* up: an undefined index compares false
  \/ /\ Defined(currentCardIndices, currentColumnIndex)
     /\ currentCardIndices[currentColumnIndex + 1] > 0
     /\ currentCardIndices' =
          [currentCardIndices EXCEPT ![currentColumnIndex + 1] = @ - 1]
     /\ UNCHANGED <<sessionVars, states, stateIssues, currentColumnIndex>>
  \* down
  \/ /\ Defined(currentCardIndices, currentColumnIndex)
     /\ currentCardIndices[currentColumnIndex + 1]
          < (IF Defined(stateIssues, currentColumnIndex)
             THEN Len(stateIssues[currentColumnIndex + 1]) - 1 ELSE -1)
     /\ currentCardIndices' =
          [currentCardIndices EXCEPT ![currentColumnIndex + 1] = @ + 1]
     /\ UNCHANGED <<sessionVars, states, stateIssues, currentColumnIndex>>
  \* fetchData: the request is answered with the states and the issues of
  \* the team; issues whose state is not among the states are left out
  \/ \E nodes \in StateLists : \E allIssues \in IssueLists :
       /\ states' = nodes
       /\ stateIssues' =
            [k \in 1..Len(nodes) |-> IssuesInState(allIssues, nodes[k].id)]
       /\ currentColumnIndex' = 0
       /\ currentCardIndices' =
            [k \in 1..Len(nodes) |->
               InitialCardIndex(IssuesInState(allIssues, nodes[k].id))]
       /\ UNCHANGED sessionVars

StandaloneSpec == Init /\ [][NextStandalone]_vars

(***************************************************************************)
(* The state object of kanbanState.ts on its own, with no subscriber       *)
(* attached: a driver calls up to MaxSetterCalls setters in a row, and     *)
(* emitted collects the events they publish                                *)
(***************************************************************************)

MaxSetterCalls == 2

\* mutant: the event is published twice
Emit_twice(name, payload) ==
  emitted' = Append(Append(emitted, Ev(name, payload)), Ev(name, payload))

\* events.emit(name, payload)
Emit(name, payload) ==
  emitted' = Append(emitted, Ev(name, payload))

\* what no setter touches: the widgets, the remote service, the operations
offStateVars == <<columns, noIssuesBox, detailShown, graphShown, focused,
                 warningShown, running, remote, task, pending, history,
                 graphVars, standaloneVars>>

\* initializeState(options), with no option or with every option given
InitSetter ==
  \E given \in BOOLEAN :
    /\ issues = <<>>
    /\ teams = <<>>
    /\ users = <<>>
    /\ workflowStates = <<>>
    /\ selectedTeamId = (IF given THEN "t1" ELSE Null)
    /\ selectedTeamName = (IF given THEN "Eng" ELSE Null)
    /\ selectedIssueId = Null
    /\ selectedStateId = Null
    /\ selectedAssigneeId = (IF given THEN "u1" ELSE Null)
    /\ viewMode = KANBAN
    /\ filterDimension = DIM_STATE
    /\ isLoading = FALSE
    /\ error = Null
    /\ startDate = (IF given THEN "2024-01-01" ELSE Null)
    /\ endDate = (IF given THEN "2024-12-31" ELSE Null)
    /\ focusedColumnIndex = 0
    /\ focusedIssueIndex = 0
    /\ columns = <<>>
    /\ noIssuesBox = [shown |-> FALSE, stale |-> FALSE]
    /\ detailShown = FALSE
    /\ graphShown = FALSE
    /\ emitted = <<>>
    /\ focused = "none"
    /\ warningShown = FALSE
    /\ running = TRUE
    /\ remote = <<>>
    /\ task = NoTask
    /\ pending = <<>>
    /\ history = NoHistory
    /\ graphChildren = <<>>
    /\ graphContent = ""
    /\ graphPending = <<>>
    /\ graphRelations = <<>>
    /\ graphNodes = <<>>
    /\ graphRenders = 0
    /\ states = <<>>
    /\ stateIssues = <<>>
    /\ currentColumnIndex = 0
    /\ currentCardIndices = <<>>

\* the fifteen setters, one disjunct each
NextSetter ==
  /\ Len(emitted) < MaxSetterCalls
  /\ \/ \* setIssues
        \E iss \in IssueSnapshots :
          /\ issues' = iss
          /\ Emit("issues-updated", iss)
          /\ UNCHANGED <<teams, workflowStates, users, selectedTeamId,
                         selectedTeamName, selectedIssueId, selectedStateId,
                         selectedAssigneeId, viewMode, filterDimension,
                         isLoading, error, startDate, endDate,
                         focusedColumnIndex, focusedIssueIndex,
                         offStateVars>>
     \/ \* setTeams
        \E ts \in {<<>>, TeamFeed} :
          /\ teams' = ts
          /\ Emit("teams-updated", ts)
          /\ UNCHANGED <<issues, workflowStates, users, selectedTeamId,
                         selectedTeamName, selectedIssueId, selectedStateId,
                         selectedAssigneeId, viewMode, filterDimension,
                         isLoading, error, startDate, endDate,
                         focusedColumnIndex, focusedIssueIndex,
                         offStateVars>>
     \/ \* setWorkflowStates
        \E ws \in StateSnapshots :
          /\ workflowStates' = ws
          /\ Emit("states-updated", ws)
          /\ UNCHANGED <<issues, teams, users, selectedTeamId,
                         selectedTeamName, selectedIssueId, selectedStateId,
                         selectedAssigneeId, viewMode, filterDimension,
                         isLoading, error, startDate, endDate,
                         focusedColumnIndex, focusedIssueIndex,
                         offStateVars>>
     \/ \* setUsers
        \E us \in {<<>>, UserFeed} :
          /\ users' = us
          /\ Emit("users-updated", us)
          /\ UNCHANGED <<issues, teams, workflowStates, selectedTeamId,
                         selectedTeamName, selectedIssueId, selectedStateId,
                         selectedAssigneeId, viewMode, filterDimension,
                         isLoading, error, startDate, endDate,
                         focusedColumnIndex, focusedIssueIndex,
                         offStateVars>>
     \/ \* setSelectedTeam
        \E teamId \in {Null, "t1"} : \E teamName \in {Null, "Eng"} :
          /\ selectedTeamId' = teamId
          /\ selectedTeamName' = teamName
          /\ Emit("team-selected", [teamId |-> teamId, teamName |-> teamName])
          /\ UNCHANGED <<issues, teams, workflowStates, users,
                         selectedIssueId, selectedStateId,
                         selectedAssigneeId, viewMode, filterDimension,
                         isLoading, error, startDate, endDate,
                         focusedColumnIndex, focusedIssueIndex,
                         offStateVars>>
     \/ \* setSelectedIssue
        \E issueId \in {Null, "i1"} :
          /\ selectedIssueId' = issueId
          /\ Emit("issue-selected", issueId)
          /\ UNCHANGED <<issues, teams, workflowStates, users,
                         selectedTeamId, selectedTeamName, selectedStateId,
                         selectedAssigneeId, viewMode, filterDimension,
                         isLoading, error, startDate, endDate,
                         focusedColumnIndex, focusedIssueIndex,
                         offStateVars>>
     \/ \* setSelectedState
        \E stateId \in {Null, "sA"} :
          /\ selectedStateId' = stateId
          /\ Emit("state-selected", stateId)
          /\ UNCHANGED <<issues, teams, workflowStates, users,
                         selectedTeamId, selectedTeamName, selectedIssueId,
                         selectedAssigneeId, viewMode, filterDimension,
                         isLoading, error, startDate, endDate,
                         focusedColumnIndex, focusedIssueIndex,
                         offStateVars>>
     \/ \* setSelectedAssignee
        \E assigneeId \in {Null, "u1"} :
          /\ selectedAssigneeId' = assigneeId
          /\ Emit("assignee-selected", assigneeId)
          /\ UNCHANGED <<issues, teams, workflowStates, users,
                         selectedTeamId, selectedTeamName, selectedIssueId,
                         selectedStateId, viewMode, filterDimension,
                         isLoading, error, startDate, endDate,
                         focusedColumnIndex, focusedIssueIndex,
                         offStateVars>>
     \/ \* setViewMode
        \E mode \in ViewMode :
          /\ viewMode' = mode
          /\ Emit("view-mode-changed", mode)
          /\ UNCHANGED <<issues, teams, workflowStates, users,
                         selectedTeamId, selectedTeamName, selectedIssueId,
                         selectedStateId, selectedAssigneeId,
                         filterDimension, isLoading, error, startDate,
                         endDate, focusedColumnIndex, focusedIssueIndex,
                         offStateVars>>
     \/ \* setFilterDimension
        \E dimension \in FilterDimension :
          /\ filterDimension' = dimension
          /\ Emit("filter-dimension-changed", dimension)
          /\ UNCHANGED <<issues, teams, workflowStates, users,
                         selectedTeamId, selectedTeamName, selectedIssueId,
                         selectedStateId, selectedAssigneeId, viewMode,
                         isLoading, error, startDate, endDate,
                         focusedColumnIndex, focusedIssueIndex,
                         offStateVars>>
     \/ \* setLoading
        \E loading \in BOOLEAN :
          /\ isLoading' = loading
          /\ Emit("loading-changed", loading)
          /\ UNCHANGED <<issues, teams, workflowStates, users,
                         selectedTeamId, selectedTeamName, selectedIssueId,
                         selectedStateId, selectedAssigneeId, viewMode,
                         filterDimension, error, startDate, endDate,
                         focusedColumnIndex, focusedIssueIndex,
                         offStateVars>>
     \/ \* setError
        \E message \in {Null, RemoteError} :
          /\ error' = message
          /\ Emit("error-changed", message)
          /\ UNCHANGED <<issues, teams, workflowStates, users,
                         selectedTeamId, selectedTeamName, selectedIssueId,
                         selectedStateId, selectedAssigneeId, viewMode,
                         filterDimension, isLoading, startDate, endDate,
                         focusedColumnIndex, focusedIssueIndex,
                         offStateVars>>
     \/ \* setDateRange
        \E from \in {Null, "2024-01-01"} : \E to \in {Null, "2024-12-31"} :
          /\ startDate' = from
          /\ endDate' = to
          /\ Emit("date-range-changed", [startDate |-> from, endDate |-> to])
          /\ UNCHANGED <<issues, teams, workflowStates, users,
                         selectedTeamId, selectedTeamName, selectedIssueId,
                         selectedStateId, selectedAssigneeId, viewMode,
                         filterDimension, isLoading, error,
                         focusedColumnIndex, focusedIssueIndex,
                         offStateVars>>
     \/ \* setFocusedColumn
        \E index \in 0..MaxRow :
          /\ focusedColumnIndex' = index
          /\ Emit("focused-column-changed", index)
          /\ UNCHANGED <<issues, teams, workflowStates, users,
                         selectedTeamId, selectedTeamName, selectedIssueId,
                         selectedStateId, selectedAssigneeId, viewMode,
                         filterDimension, isLoading, error, startDate,
                         endDate, focusedIssueIndex, offStateVars>>
     \/ \* setFocusedIssue
        \E index \in 0..MaxRow :
          /\ focusedIssueIndex' = index
          /\ Emit("focused-issue-changed", index)
          /\ UNCHANGED <<issues, teams, workflowStates, users,
                         selectedTeamId, selectedTeamName, selectedIssueId,
                         selectedStateId, selectedAssigneeId, viewMode,
                         filterDimension, isLoading, error, startDate,
                         endDate, focusedColumnIndex, offStateVars>>

SetterSpec == InitSetter /\ [][NextSetter]_vars

(***************************************************************************)
(* The relationship graph (kanban/components/relationshipGraph.ts): the    *)
(* graph view is open on the selected issue; every render clears the       *)
(* container, asks the remote service for the edges of the issue and, when *)
(* the answer arrives, builds the focal node and one node, one line and    *)
(* one label per edge                                                      *)
(***************************************************************************)

MaxRelations == 4
MaxGraphRenders == 3

\* the centre of the focal node and the radius of the circle
CenterX == 30
CenterY == 10
Radius == 15

\* the answers of getIssueRelations: the first n edges of an issue that has
\* edges of every type, and the edges of one whose edges are all of the
\* type 'related'
RelationAnswers ==
  LET other == <<"i2", "i3", "i4", "i2", "i3", "i4", "i2", "i3">>
      types == <<"parent", "child", "blocked_by", "blocks", "related",
                 "duplicate", "child", "blocks">>
  IN { [k \in 1..n |-> [type |-> types[k], issue |-> other[k]]]
       : n \in 0..MaxRelations }
     \cup { [k \in 1..MaxRelations |->
               [type |-> "related", issue |-> other[k]]] }

\* mutant: the related nodes are spread over half a turn
circleOffsets_halfTurn(n) ==
  << << <<15, 0>> >>,
     << <<15, 0>>, <<0, 15>> >>,
     << <<15, 0>>, <<7, 12>>, <<-8, 12>> >>,
     << <<15, 0>>, <<10, 10>>, <<0, 15>>, <<-11, 10>> >>,
     << <<15, 0>>, <<12, 8>>, <<4, 14>>, <<-5, 14>>, <<-13, 8>> >>,
     << <<15, 0>>, <<12, 7>>, <<7, 12>>, <<0, 15>>, <<-8, 12>>, <<-13, 7>> >>,
     << <<15, 0>>, <<13, 6>>, <<9, 11>>, <<3, 14>>, <<-4, 14>>,
         <<-10, 11>>, <<-14, 6>> >> >>[n]

\* <<Math.floor(radius * Math.cos(index * angleStep)),
\*   Math.floor(radius * Math.sin(index * angleStep))>> for index = 0..n-1,
\* with angleStep = (2 * Math.PI) / n, as double-precision arithmetic gives
\* them: 15 * Math.cos(3 * (Math.PI / 2)) is a little below zero, so its
\* floor is -1
circleOffsets(n) ==
  << << <<15, 0>> >>,
     << <<15, 0>>, <<-15, 0>> >>,
     << <<15, 0>>, <<-8, 12>>, <<-8, -13>> >>,
     << <<15, 0>>, <<0, 15>>, <<-15, 0>>, <<-1, -15>> >>,
     << <<15, 0>>, <<4, 14>>, <<-13, 8>>, <<-13, -9>>, <<4, -15>> >>,
     << <<15, 0>>, <<7, 12>>, <<-8, 12>>, <<-15, 0>>, <<-8, -13>>,
         <<7, -13>> >>,
     << <<15, 0>>, <<9, 11>>, <<-4, 14>>, <<-14, 6>>, <<-14, -7>>,
         <<-4, -15>>, <<9, -12>> >> >>[n]

\* createIssueNode(issue, x, y, type): a box in graphContainer
createIssueNode(id, x, y, type) ==
  [kind |-> "node", id |-> id, x |-> x, y |-> y, type |-> type]

\* mutant: the focal node is created before the edges are counted
renderRelationshipGraph_focalFirst(issueId, rels) ==
  [content |-> IF Len(rels) = 0 THEN "No relationships found for this issue"
               ELSE "Loading relationship data...",
   nodes |-> <<createIssueNode(issueId, CenterX, CenterY, "current")>>,
   widgets |-> <<createIssueNode(issueId, CenterX, CenterY, "current")>>]

\* renderRelationshipGraph after the edges have been answered: the text of
\* the container, the nodes array, and the widgets appended to the
\* container in the order of their creation (the focal node, then for each
\* edge its node and the line and the label of drawConnectionLine)
renderRelationshipGraph(issueId, rels) ==
  IF Len(rels) = 0
  THEN [content |-> "No relationships found for this issue",
        nodes |-> <<>>, widgets |-> <<>>]
  ELSE LET centerNode == createIssueNode(issueId, CenterX, CenterY, "current")
           offsets == circleOffsets(Len(rels))
           relatedNode(k) ==
             createIssueNode(rels[k].issue, CenterX + offsets[k][1],
                             CenterY + offsets[k][2], rels[k].type)
           fromX == CenterX + 10
           fromY == CenterY + 3
           line(k) == [kind |-> "line", id |-> rels[k].issue, x |-> fromX,
                       y |-> fromY, type |-> rels[k].type]
           label(k) ==
             [kind |-> "label", id |-> rels[k].issue,
              x |-> ((fromX + relatedNode(k).x + 10) \div 2) - 5,
              y |-> (fromY + relatedNode(k).y) \div 2,
              type |-> rels[k].type]
       IN [content |-> "Loading relationship data...",
           nodes |-> <<centerNode>>
                       \o [k \in 1..Len(rels) |-> relatedNode(k)],
           widgets |-> <<centerNode>>
                         \o [j \in 1..(3 * Len(rels)) |->
                               LET k == (j + 2) \div 3
                               IN CASE j % 3 = 1 -> relatedNode(k)
                                    [] j % 3 = 2 -> line(k)
                                    [] OTHER -> label(k)]]

\* a session whose graph view has just been opened on a selected issue: the
\* 'view-mode-changed' listener has shown the box and started a render
InitGraph ==
  \E sel \in 1..MaxFetchedIssues :
    /\ issues = Prefix(IssueFeed, MaxFetchedIssues)
    /\ teams = <<>>
    /\ users = <<>>
    /\ workflowStates = <<>>
    /\ selectedTeamId = Null
    /\ selectedIssueId = IssueFeed[sel].id
    /\ selectedAssigneeId = Null
    /\ viewMode = RELATIONSHIP_GRAPH
    /\ filterDimension = DIM_STATE
    /\ focusedColumnIndex = 0
    /\ focusedIssueIndex = 0
    /\ columns = renderBoard(Prefix(IssueFeed, MaxFetchedIssues), <<>>,
                            DIM_STATE, 0).columns
    /\ noIssuesBox = [shown |-> FALSE, stale |-> TRUE]
    /\ detailShown = FALSE
    /\ graphShown = TRUE
    /\ emitted = <<>>
    /\ focused = "none"
    /\ warningShown = FALSE
    /\ running = TRUE
    /\ AsyncIdle
    /\ selectedTeamName = Null
    /\ selectedStateId = Null
    /\ startDate = Null
    /\ endDate = Null
    /\ graphChildren = <<>>
    /\ graphContent = "Loading relationship data..."
    /\ graphPending = <<IssueFeed[sel].id>>
    /\ graphRelations = <<>>
    /\ graphNodes = <<>>
    /\ graphRenders = 1
    /\ states = <<>>
    /\ stateIssues = <<>>
    /\ currentColumnIndex = 0
    /\ currentCardIndices = <<>>

graphOffVars == <<boardVars, teams, users, selVars, selectedIssueId,
                  focusedIssueIndex, modeVars, focused, warningShown,
                  running, asyncVars, fieldVars, standaloneVars>>

\* renderRelationshipGraph(issueId) up to its await.
\* children.forEach(child => remove(child)) removes from the array it walks,
\* so it skips the child that moves into the place of each removed one
GraphRenderStart(issueId) ==
  /\ graphRenders < MaxGraphRenders
  /\ graphRenders' = graphRenders + 1
  /\ graphChildren' = [k \in 1..(Len(graphChildren) \div 2) |->
                         graphChildren[2 * k]]
  /\ IF \E k \in 1..Len(issues) : issues[k].id = issueId
     THEN /\ graphContent' = "Loading relationship data..."
          /\ graphPending' = Append(graphPending, issueId)
     ELSE /\ graphContent' = "Issue not found"
          /\ UNCHANGED graphPending
  /\ UNCHANGED <<graphRelations, graphNodes>>

graphKeyVars == <<boardVars, teams, users, selVars, focusedIssueIndex,
                  focused, warningShown, running, asyncVars, fieldVars,
                  standaloneVars>>

\* the 'r' key of the graph box
GraphRefresh ==
  /\ viewMode = RELATIONSHIP_GRAPH
  /\ selectedIssueId # Null
  /\ GraphRenderStart(selectedIssueId)
  /\ emitted' = <<>>
  /\ UNCHANGED graphOffVars

\* the 'g' key of the detail box: setViewMode(RELATIONSHIP_GRAPH), whose
\* listener shows the graph box and renders the selected issue
GraphOpen ==
  /\ detailFocused
  /\ selectedIssueId # Null
  /\ setViewMode(RELATIONSHIP_GRAPH)
  /\ GraphRenderStart(selectedIssueId)
  /\ emitted' = <<Ev("view-mode-changed", RELATIONSHIP_GRAPH)>>
  /\ UNCHANGED <<graphKeyVars, selectedIssueId>>

\* mutant: the click opens the detail view of the issue selected before
GraphNodeClick_noSelect(k) ==
  /\ viewMode = RELATIONSHIP_GRAPH
  /\ k \in 1..Len(graphChildren)
  /\ graphChildren[k].kind = "node"
  /\ setViewMode(DETAIL)
  /\ emitted' = <<Ev("view-mode-changed", DETAIL)>>
  /\ UNCHANGED <<graphKeyVars, selectedIssueId, graphVars>>

\* a click on the k-th widget of the container, a node: setSelectedIssue,
\* whose listener renders the issue while the graph is still the view
\* mode, then setViewMode(DETAIL)
GraphNodeClick(k) ==
  /\ viewMode = RELATIONSHIP_GRAPH
  /\ k \in 1..Len(graphChildren)
  /\ graphChildren[k].kind = "node"
  /\ selectedIssueId' = graphChildren[k].id
  /\ GraphRenderStart(graphChildren[k].id)
  /\ setViewMode(DETAIL)
  /\ emitted' = <<Ev("issue-selected", graphChildren[k].id),
                  Ev("view-mode-changed", DETAIL)>>
  /\ UNCHANGED graphKeyVars

\* the 'enter' key of the graph box
GraphKeyEnter ==
  /\ viewMode = RELATIONSHIP_GRAPH
  /\ selectedIssueId # Null
  /\ setViewMode(DETAIL)
  /\ emitted' = <<Ev("view-mode-changed", DETAIL)>>
  /\ UNCHANGED <<graphKeyVars, selectedIssueId, graphVars>>

\* getIssueRelations is answered for the i-th render in flight
GraphAnswered(i, rels) ==
  /\ i \in 1..Len(graphPending)
  /\ LET r == renderRelationshipGraph(graphPending[i], rels)
     IN /\ graphContent' = IF Len(rels) = 0 THEN r.content ELSE graphContent
        /\ graphChildren' = graphChildren \o r.widgets
        /\ graphNodes' = r.nodes
  /\ graphRelations' = rels
  /\ graphPending' = Remove(graphPending, i)
  /\ emitted' = <<>>
  /\ UNCHANGED <<graphOffVars, graphRenders>>

\* getIssueRelations is rejected for the i-th render in flight
GraphFailed(i) ==
  /\ i \in 1..Len(graphPending)
  /\ graphContent' = "Error loading relationship data"
  /\ graphPending' = Remove(graphPending, i)
  /\ emitted' = <<>>
  /\ UNCHANGED <<graphOffVars, graphChildren, graphRelations, graphNodes,
                 graphRenders>>

NextGraph ==
  \/ GraphRefresh
  \/ \E i \in 1..MaxGraphRenders : \E rels \in RelationAnswers :
       GraphAnswered(i, rels)
  \/ \E i \in 1..MaxGraphRenders : GraphFailed(i)

GraphSpec == InitGraph /\ [][NextGraph]_vars

\* the graph view with the ways into it and out of it: the keys of the
\* graph box and of the detail box, the clicks on nodes and on cards
NextGraphNav ==
  \/ NextGraph
  \/ GraphOpen
  \/ \E k \in 1..(2 * (1 + 3 * MaxRelations)) : GraphNodeClick(k)
  \/ GraphKeyEnter
  \/ KeyEscape
  \/ \E c \in 1..MaxIssues : \E r \in 1..MaxIssues : CardClick(c, r)

GraphNavSpec == InitGraph /\ [][NextGraphNav]_vars

----------------------------------------------------------------------------
(* Properties *)

\* the number of columns the grouping engine produces for the board state
NumColumns ==
  Len(groupIssuesByDimension(issues, workflowStates, filterDimension))

\* the indices of the columns that hold the issue
ColumnsOf(issue) ==
  { c \in 1..Len(columns) :
      \E r \in 1..Len(columns[c].issues) : columns[c].issues[r] = issue }

\* the last input published this event
Published(name, payload) ==
  \E e \in 1..Len(emitted) :
    emitted[e].name = name /\ emitted[e].payload = payload

\* the last input was a navigation key handled by the board
AfterNavigation ==
  /\ emitted # <<>>
  /\ emitted[1].name \in {"focused-column-changed", "focused-issue-changed"}

\* C1: after arrow keys on a board with at least one issue, the focused row
\* is a row of the focused column, or -1 when that column is empty
C1_FocusedIssueInBounds ==
  (AfterNavigation /\ Len(issues) > 0
     /\ Defined(columns, focusedColumnIndex)) =>
    LET n == Len(columns[focusedColumnIndex + 1].issues)
    IN IF n = 0 THEN focusedIssueIndex = -1
       ELSE focusedIssueIndex \in 0..(n - 1)

\* C2: Left and Right keep the focused column in [0, numColumns-1] and, away
\* from an edge, move it by exactly one column
C2_LeftRightClamped ==
  [][ (viewMode = KANBAN /\ NumColumns >= 1) =>
        /\ (KeyLeft \/ KeyRight) =>
              focusedColumnIndex' \in 0..(NumColumns' - 1)
        /\ (KeyRight /\ focusedColumnIndex \in 0..(NumColumns - 2)) =>
              focusedColumnIndex' = focusedColumnIndex + 1
        /\ (KeyLeft /\ focusedColumnIndex \in 1..(NumColumns - 1)) =>
              focusedColumnIndex' = focusedColumnIndex - 1 ]_vars

\* C3: on a board that shows issues, a change of the filter dimension puts the
\* focus on column 0 and on row 0, or row -1 when the first column is empty
C3_DimensionChangeResetsFocus ==
  [][ (viewMode = KANBAN /\ Len(issues) > 0
         /\ filterDimension' # filterDimension
         /\ \E d \in FilterDimension : KeyDimension(d)) =>
        /\ focusedColumnIndex' = 0
        /\ focusedIssueIndex' =
             IF columns' # <<>> /\ Len(columns'[1].issues) > 0 THEN 0
             ELSE -1 ]_vars

\* C4: every issue of the list is in a group; grouped by label it is in as
\* many groups as it has labels, or in 'No Labels' when it has none
C4_EveryIssueGrouped ==
  Len(issues) > 0 =>
    \A i \in 1..Len(issues) :
      /\ ColumnsOf(issues[i]) # {}
      /\ filterDimension = DIM_LABEL =>
           IF Len(issues[i].labels) = 0
           THEN \A c \in ColumnsOf(issues[i]) : columns[c].key = "no-label"
           ELSE /\ Cardinality(ColumnsOf(issues[i])) = Len(issues[i].labels)
                /\ \A c \in ColumnsOf(issues[i]) :
                     \E l \in 1..Len(issues[i].labels) :
                       columns[c].key = issues[i].labels[l]

C4_Witness ==
  /\ filterDimension = DIM_LABEL
  /\ \E i \in 1..Len(issues) : Cardinality(ColumnsOf(issues[i])) = 2
  /\ \E i \in 1..Len(issues) : Len(issues[i].labels) = 0

\* the columns of the known workflow states, in board order
KnownStateColumns ==
  SelectSeq(columns,
            LAMBDA g : \E w \in 1..Len(workflowStates) :
                         workflowStates[w].id = g.key)

PositionOf(stateId) ==
  (CHOOSE s \in LinearState : s.id = stateId).position

\* C5: grouped by state, the board has exactly one column per known
\* workflow state, empty ones included, in ascending position order, each
\* holding the issues of its state
C5_StateColumnsInWorkflowOrder ==
  (filterDimension = DIM_STATE /\ Len(issues) > 0) =>
    /\ \A w \in 1..Len(workflowStates) :
         Cardinality({ c \in 1..Len(columns) :
                         columns[c].key = workflowStates[w].id }) = 1
    /\ \A a, b \in 1..Len(KnownStateColumns) :
         a < b => PositionOf(KnownStateColumns[a].key)
                    < PositionOf(KnownStateColumns[b].key)
    /\ \A c \in 1..Len(columns) :
         columns[c].issues = IssuesInState(issues, columns[c].key)

\* states A, B, C fetched out of order, one issue in each: columns [A, B, C]
C5_Witness ==
  /\ filterDimension = DIM_STATE
  /\ emitted = <<Ev("filter-dimension-changed", DIM_STATE)>>
  /\ Len(columns) = 3
  /\ columns[1].key = "sA" /\ Len(columns[1].issues) = 1
  /\ columns[2].key = "sB" /\ Len(columns[2].issues) = 1
  /\ columns[3].key = "sC" /\ Len(columns[3].issues) = 1

\* a card is displayed at the focus coordinate
CardAtFocus ==
  /\ Defined(columns, focusedColumnIndex)
  /\ Defined(columns[focusedColumnIndex + 1].issues, focusedIssueIndex)

\* C6: Enter on the board selects the issue of the card at the focus
\* coordinate and opens the detail view; without a card there it changes
\* neither the selection nor the view mode
C6_EnterSelectsFocusedCard ==
  [][ (viewMode = KANBAN /\ KeyEnter) =>
        IF CardAtFocus
        THEN /\ selectedIssueId' =
                  columns[focusedColumnIndex + 1].issues[focusedIssueIndex + 1].id
             /\ viewMode' = DETAIL
        ELSE UNCHANGED <<selectedIssueId, viewMode>> ]_vars

BoardKey ==
  \/ KeyLeft \/ KeyRight \/ KeyUp \/ KeyDown
  \/ KeyT \/ KeyF \/ KeyN \/ KeyHelp
  \/ \E d \in FilterDimension : KeyDimension(d)

\* C10: t, f, n, ? open their panel from the board; in every other mode the
\* board keys change neither the view mode, the focus nor the dimension
C10_BoardKeysOnlyOnBoard ==
  [][ /\ (viewMode = KANBAN /\ KeyT) => viewMode' = TEAM_SELECT
      /\ (viewMode = KANBAN /\ KeyF) => viewMode' = FILTER
      /\ (viewMode = KANBAN /\ KeyN) => viewMode' = CREATE
      /\ (viewMode = KANBAN /\ KeyHelp) => viewMode' = HELP
      /\ (viewMode # KANBAN /\ BoardKey) =>
           UNCHANGED <<viewMode, focusedColumnIndex, focusedIssueIndex,
                       filterDimension>> ]_vars

\* a board key was pressed in the help panel and nothing was published
C10_Witness ==
  /\ viewMode = HELP
  /\ emitted = <<>>
  /\ focusedColumnIndex > 0
  /\ filterDimension # DIM_STATE

\* C9: the show-graph key opens the relationship graph only when an issue
\* is selected; with no issue selected it shows the transient warning,
\* publishes no mode change and leaves the view mode as it is
C9_ShowGraphNeedsSelection ==
  [][ RelKeyG =>
        /\ selectedIssueId # Null => viewMode' = RELATIONSHIP_GRAPH
        /\ selectedIssueId = Null =>
             /\ warningShown'
             /\ viewMode' = viewMode
             /\ emitted' = <<>> ]_vars

\* g was pressed on the focused detail view with an issue selected
C9_Witness ==
  /\ viewMode = RELATIONSHIP_GRAPH
  /\ selectedIssueId # Null
  /\ emitted = <<Ev("view-mode-changed", RELATIONSHIP_GRAPH),
                 Ev("view-mode-changed", RELATIONSHIP_GRAPH)>>

----------------------------------------------------------------------------
(* The relation pipeline *)

\* the remote issue whose identifier is h, Null when there is none
IssueWithIdentifier(h) ==
  IF \E k \in 1..Len(remote) : IssueById(remote[k].id).identifier = h
  THEN (CHOOSE n \in {remote[k] : k \in 1..Len(remote)} :
          IssueById(n.id).identifier = h).id
  ELSE Null

Mutations == {"setParentIssue", "createIssueRelation", "deleteIssueRelation"}

CallsTo(names) ==
  {k \in 1..Len(task.calls) : task.calls[k].name \in names}

\* C11: a lookup that was answered resolved the identifier to the id of the
\* remote issue that has this identifier, and to null when none has it
C11_ResolveReturnsMatchingIssue ==
  (task.pc \in {"mutate", "refresh", "done"}
     /\ task.lookup \in {"found", "none"}) =>
    task.resolved = IssueWithIdentifier(task.identifier)

\* C12: an operation whose identifier resolved to no id returns false and
\* has called no mutation
C12_NoMutationWithoutId ==
  (task.kind \in LookupKinds /\ task.pc \in {"mutate", "refresh", "done"}
     /\ task.resolved = Null) =>
    /\ task.pc = "done"
    /\ task.result = "false"
    /\ CallsTo(Mutations) = {}

C12_Witness ==
  /\ task.kind = "setParentRelation"
  /\ task.pc = "done"
  /\ task.lookup = "none"
  /\ task.resolved = Null

\* C13: after an operation on issue X returned true with its refresh
\* answered, the local snapshot of X is the remote service's snapshot of X,
\* and one refreshIssue call was made, for X
C13_SuccessRefreshesIssue ==
  (task.pc = "done" /\ task.result = "true" /\ task.refresh = "answered") =>
    /\ \A k \in 1..Len(issues) :
         issues[k].id = task.issueId =>
           \E j \in 1..Len(remote) :
             remote[j].id = task.issueId /\ issues[k] = Transform(remote[j])
    /\ Cardinality(CallsTo({"refreshIssue"})) = 1
    /\ \A k \in CallsTo({"refreshIssue"}) :
         task.calls[k].target = task.issueId

\* the messages that say that no issue has the identifier
NotFoundMessages ==
  {"Could not find issue with identifier ENG-1",
   "Could not find issue with identifier ENG-2",
   "Could not find issue with identifier UNKNOWN-1"}

\* C14: an operation that returned false left the issue list as it was at
\* its entry; when its lookup found no issue the error field holds a
\* could-not-find message
C14_FailureLeavesIssues ==
  (task.pc = "done" /\ task.result = "false") =>
    /\ issues = task.before
    /\ task.lookup = "none" => error \in NotFoundMessages

C14_Witness ==
  /\ task.pc = "done"
  /\ task.result = "false"
  /\ task.lookup = "none"
  /\ task.identifier = "UNKNOWN-1"
  /\ Len(issues) > 0

\* C15: an operation that did not succeed returned false and the error
\* field holds a message
C15_FailureRecordsError ==
  (task.pc = "done" /\ task.result # "true") =>
    /\ task.result = "false"
    /\ error # Null

\* C16: isLoading is true while an operation waits for a remote call and
\* false once it has completed
C16_LoadingBracketsOperation ==
  /\ task.pc \in {"lookup", "mutate", "refresh"} => isLoading = TRUE
  /\ task.pc \in {"done", "idle"} => isLoading = FALSE

C16_Witness ==
  /\ task.pc = "done"
  /\ task.kind = "deleteRelation"
  /\ task.result = "true"
  /\ isLoading = FALSE

\* C17: an operation recorded the could-not-find message exactly when its
\* lookup was answered and found no issue
C17_NotFoundDistinctFromTransport ==
  (task.pc = "done" /\ task.kind \in LookupKinds) =>
    (task.message = CouldNotFind(task.identifier) <=> task.lookup = "none")

----------------------------------------------------------------------------
(* The data refresher *)

\* C18: once a call has completed with its issue fetch answered, the issue
\* list is the answer that call got, whatever the order in which the calls
\* in flight were started
C18_LastCompletionWins ==
  history.last.ok => issues = history.last.issues

C18_Witness ==
  /\ pending = <<>>
  /\ history.order = <<2, 1>>
  /\ history.last.ok
  /\ Len(issues) > 0
  /\ issues = history.last.issues

\* the data set of a request in the next state
DataSetNext(pc) ==
  CASE pc = "teams" -> teams'
    [] pc = "users" -> users'
    [] pc = "states" -> workflowStates'
    [] OTHER -> issues'

\* C19: when a fetch of a refresh call fails, the call completes with a
\* message in the error field and isLoading false, and the data set of the
\* fetch is left as it is; it is as the call found it when no other call
\* ran meanwhile
C19_FailedFetchKeepsData ==
  [][ \A i \in 1..Len(pending) :
        FetchFailed(i) =>
          /\ error' # Null
          /\ isLoading' = FALSE
          /\ DataSetNext(pending[i].pc) = DataSet(pending[i].pc)
          /\ (pending[i].id = 1 /\ Len(pending) = 1
                /\ history.order = <<>>) =>
               DataSetNext(pending[i].pc) =
                 pending[i].before[pending[i].pc] ]_vars

C19_Witness ==
  /\ pending = <<>>
  /\ history.order = <<1>>
  /\ history.last.kind = "refreshData"
  /\ history.last.pc = "states"
  /\ ~history.last.ok
  /\ Len(teams) > 0
  /\ error # Null
  /\ isLoading = FALSE

\* C20: an issue fetch answered with no issue leaves the error field null
\* and the board shows the placeholder
C20_EmptyListIsNoError ==
  [][ \A i \in 1..Len(pending) :
        (pending[i].pc = "issues" /\ FetchAnswered(i, <<>>)) =>
          /\ error' = Null
          /\ Len(issues') = 0
          /\ columns' = <<>> ]_vars

(***************************************************************************)
(* Failures, setters and the board's rendering                             *)
(***************************************************************************)

\* C21: when a relation operation has completed and one of its remote calls
\* (the lookup of the identifier or the refresh of the issue) was rejected,
\* the error field holds a message or the caller has been told of a failure
\* (the caller shows the failure message when the operation returned false)
C21_NoFailureDropped ==
  (task.pc = "done" /\ (task.lookup = "failed" \/ task.refresh = "failed")) =>
    (error # Null \/ task.result = "false")

\* C22: a step that changes the workflow-state list (its contents or its
\* order) publishes 'states-updated', the event of setWorkflowStates
C22_StateListChangesThroughSetter ==
  [][ workflowStates' # workflowStates =>
        \E k \in 1..Len(emitted') : emitted'[k].name = "states-updated" ]_vars

(* The setters *)

\* the effect of the setter that owns event e: its field or fields hold the
\* value the event carries, every other field and everything outside the
\* state object is as before
SetterEffect(e) ==
  /\ e.name \in {"issues-updated", "teams-updated", "states-updated",
                 "users-updated", "team-selected", "issue-selected",
                 "state-selected", "assignee-selected", "view-mode-changed",
                 "filter-dimension-changed", "loading-changed",
                 "error-changed", "date-range-changed",
                 "focused-column-changed", "focused-issue-changed"}
  /\ issues' = IF e.name = "issues-updated" THEN e.payload ELSE issues
  /\ teams' = IF e.name = "teams-updated" THEN e.payload ELSE teams
  /\ workflowStates' =
       IF e.name = "states-updated" THEN e.payload ELSE workflowStates
  /\ users' = IF e.name = "users-updated" THEN e.payload ELSE users
  /\ selectedTeamId' =
       IF e.name = "team-selected" THEN e.payload.teamId ELSE selectedTeamId
  /\ selectedTeamName' =
       IF e.name = "team-selected" THEN e.payload.teamName
       ELSE selectedTeamName
  /\ selectedIssueId' =
       IF e.name = "issue-selected" THEN e.payload ELSE selectedIssueId
  /\ selectedStateId' =
       IF e.name = "state-selected" THEN e.payload ELSE selectedStateId
  /\ selectedAssigneeId' =
       IF e.name = "assignee-selected" THEN e.payload ELSE selectedAssigneeId
  /\ viewMode' = IF e.name = "view-mode-changed" THEN e.payload ELSE viewMode
  /\ filterDimension' =
       IF e.name = "filter-dimension-changed" THEN e.payload
       ELSE filterDimension
  /\ isLoading' = IF e.name = "loading-changed" THEN e.payload ELSE isLoading
  /\ error' = IF e.name = "error-changed" THEN e.payload ELSE error
  /\ startDate' =
       IF e.name = "date-range-changed" THEN e.payload.startDate
       ELSE startDate
  /\ endDate' =
       IF e.name = "date-range-changed" THEN e.payload.endDate ELSE endDate
  /\ focusedColumnIndex' =
       IF e.name = "focused-column-changed" THEN e.payload
       ELSE focusedColumnIndex
  /\ focusedIssueIndex' =
       IF e.name = "focused-issue-changed" THEN e.payload
       ELSE focusedIssueIndex
  /\ UNCHANGED <<columns, noIssuesBox, detailShown, graphShown, focused,
                 warningShown, running, remote, task, pending, history,
                 graphChildren, graphContent, graphPending, graphRelations,
                 graphNodes, graphRenders>>

\* C23: a setter call publishes exactly one event; the field or fields of
\* the setter that owns this event hold the value the event carries, and
\* every other field is unchanged, also when the new value is the old one
C23_SetterFrame ==
  [][ /\ Len(emitted') = Len(emitted) + 1
      /\ SubSeq(emitted', 1, Len(emitted)) = emitted
      /\ SetterEffect(emitted'[Len(emitted')]) ]_vars

C23_Witness ==
  /\ Len(emitted) = 2
  /\ emitted[1].name = "team-selected"
  /\ emitted[2].name = "team-selected"
  /\ emitted[1].payload = emitted[2].payload
  /\ selectedTeamId = "t1"
  /\ selectedTeamName = Null
  /\ selectedAssigneeId = "u1"

(* The board's rendering *)

\* C24: the render that follows setIssues changes no field of the board
\* state other than the issue list that the setter has set: the
\* workflow-state list with its order, the focus indices and the selection
\* are what they were before
C24_RenderChangesNoField ==
  [][ (\E iss \in IssueSnapshots : LoadIssues(iss)) =>
        /\ workflowStates' = workflowStates
        /\ focusedColumnIndex' = focusedColumnIndex
        /\ focusedIssueIndex' = focusedIssueIndex
        /\ selectedIssueId' = selectedIssueId ]_vars

\* C25: after a re-render columnsContainer holds no widget built by an
\* earlier render
C25_NoWidgetOfEarlierRender ==
  ~ noIssuesBox.stale

\* C26: when the issue list is empty the board shows the 'no issues' panel
\* and holds no column (hence no card), under every dimension and every
\* workflow-state list
C26_EmptyListShowsPlaceholder ==
  Len(issues) = 0 => (noIssuesBox.shown /\ columns = <<>>)

C26_Witness ==
  /\ Len(issues) = 0
  /\ Len(workflowStates) > 0
  /\ filterDimension = DIM_PRIORITY
  /\ Len(emitted) > 0
  /\ emitted[1].name = "filter-dimension-changed"
  /\ noIssuesBox.shown
  /\ columns = <<>>

(* Grouping *)

\* the names of the groups, in the order of the columns
GroupNames(groups) == [g \in 1..Len(groups) |-> groups[g].name]

\* the fixed groups of a dimension are among the groups
FixedGroups(groups, dimension) ==
  /\ dimension = DIM_ASSIGNEE =>
       \E g \in 1..Len(groups) :
         groups[g].key = "unassigned" /\ groups[g].name = "Unassigned"
  /\ dimension = DIM_LABEL =>
       \E g \in 1..Len(groups) :
         groups[g].key = "no-label" /\ groups[g].name = "No Labels"
  /\ dimension = DIM_PRIORITY =>
       GroupNames(groups) =
         <<"Urgent", "High", "Medium", "Low", "No Priority">>

\* C27: the columns built from a non-empty issue list hold the fixed groups
\* of the dimension ('Unassigned'; 'No Labels'; exactly the five priority
\* groups in the order Urgent, High, Medium, Low, No Priority), whether or
\* not an issue falls into them, and so do the groups of the empty list
C27_FixedGroupsSeeded ==
  /\ Len(issues) > 0 => FixedGroups(columns, filterDimension)
  /\ FixedGroups(groupIssuesByDimension(<<>>, workflowStates,
                                        filterDimension), filterDimension)

C27_Witness ==
  /\ Len(issues) > 0
  /\ filterDimension = DIM_PRIORITY
  /\ Len(columns) = 5
  /\ \E g \in 1..Len(columns) : Len(columns[g].issues) = 0
  /\ \A k \in 1..Len(issues) : issues[k].assignee # Null
  /\ \A k \in 1..Len(issues) : Len(issues[k].labels) > 0

\* how many cards of the group with this key show the issue
CardsIn(key, issue) ==
  Cardinality({ <<g, j>> \in (1..Len(columns)) \X (1..MaxIssues) :
                  /\ columns[g].key = key
                  /\ j <= Len(columns[g].issues)
                  /\ columns[g].issues[j] = issue })

\* how many cards show the issue
Cards(issue) ==
  Cardinality({ <<g, j>> \in (1..Len(columns)) \X (1..MaxIssues) :
                  /\ j <= Len(columns[g].issues)
                  /\ columns[g].issues[j] = issue })

\* the number of cards of all columns
RECURSIVE CardCount(_)
CardCount(g) ==
  IF g = 0 THEN 0 ELSE Len(columns[g].issues) + CardCount(g - 1)

\* the number of cards the issues of the list ask for under the label
\* dimension: one per label, one for an issue without labels
RECURSIVE LabelCards(_)
LabelCards(iss) ==
  IF iss = <<>> THEN 0
  ELSE (IF Len(Head(iss).labels) = 0 THEN 1 ELSE Len(Head(iss).labels))
       + LabelCards(Tail(iss))

\* C28: under the state, assignee and priority dimensions every issue of the
\* list is on exactly one card, and the columns hold no other card; under
\* the label dimension an issue is on one card in the group of each of its
\* labels (in 'No Labels' when it has none) and on no other card
C28_GroupingIsPartition ==
  Len(issues) > 0 =>
    IF filterDimension = DIM_LABEL
    THEN /\ \A k \in 1..Len(issues) :
              IF Len(issues[k].labels) = 0
              THEN CardsIn("no-label", issues[k]) = 1 /\ Cards(issues[k]) = 1
              ELSE /\ \A l \in 1..Len(issues[k].labels) :
                        CardsIn(issues[k].labels[l], issues[k]) = 1
                   /\ Cards(issues[k]) = Len(issues[k].labels)
         /\ CardCount(Len(columns)) = LabelCards(issues)
    ELSE /\ \A k \in 1..Len(issues) : Cards(issues[k]) = 1
         /\ CardCount(Len(columns)) = Len(issues)

C28_Witness ==
  /\ filterDimension = DIM_LABEL
  /\ Len(issues) >= 2
  /\ \E k \in 1..Len(issues) : Len(issues[k].labels) = 2
  /\ \E k \in 1..Len(issues) : Len(issues[k].labels) = 0
  /\ CardCount(Len(columns)) > Len(issues)

(* The relationship graph *)

\* the nodes among the widgets that a step has appended to the container
CreatedNodes ==
  SelectSeq(SubSeq(graphChildren', Len(graphChildren) + 1,
                   Len(graphChildren')),
            LAMBDA w : w.kind = "node")

\* C29: a render whose fetch is answered with N >= 1 edges creates one focal
\* node for its issue and then one node per edge, in the order of the edges
\* and with the issue and the type of the edge; answered with no edge it
\* sets the 'no relationships' message and creates no widget at all
C29_OneNodePerEdge ==
  [][ \A i \in 1..MaxGraphRenders : \A rels \in RelationAnswers :
        GraphAnswered(i, rels) =>
          IF Len(rels) = 0
          THEN /\ graphContent' = "No relationships found for this issue"
               /\ graphChildren' = graphChildren
               /\ graphNodes' = <<>>
          ELSE /\ Len(CreatedNodes) = Len(rels) + 1
               /\ CreatedNodes[1].type = "current"
               /\ CreatedNodes[1].id = graphPending[i]
               /\ \A k \in 1..Len(rels) :
                    /\ CreatedNodes[k + 1].id = rels[k].issue
                    /\ CreatedNodes[k + 1].type = rels[k].type
               /\ graphNodes' = CreatedNodes ]_vars

C29_Witness ==
  /\ graphContent = "No relationships found for this issue"
  /\ Len(graphRelations) = 3
  /\ Len(graphNodes) = 4
  /\ graphRelations[1].type = "parent"
  /\ Len(graphChildren) > 10

\* the offset of the k-th related node of the last render from the centre
Dx(k) == graphNodes[k + 1].x - CenterX
Dy(k) == graphNodes[k + 1].y - CenterY

Sq(a) == a * a

\* the circle of the radius around the centre passes through the cell whose
\* floor corner is the node's position
OnCircle(k) ==
  /\ Min(Sq(Dx(k)), Sq(Dx(k) + 1)) + Min(Sq(Dy(k)), Sq(Dy(k) + 1))
       <= Sq(Radius)
  /\ Max(Sq(Dx(k)), Sq(Dx(k) + 1)) + Max(Sq(Dy(k)), Sq(Dy(k) + 1))
       >= Sq(Radius)

RECURSIVE SumDx(_)
SumDx(k) == IF k = 0 THEN 0 ELSE Dx(k) + SumDx(k - 1)

RECURSIVE SumDy(_)
SumDy(k) == IF k = 0 THEN 0 ELSE Dy(k) + SumDy(k - 1)

\* the node after the k-th on the way round
After(k) == IF k = Len(graphRelations) THEN 1 ELSE k + 1

\* the square of the distance from the k-th node to the next
Chord(k) == Sq(Dx(After(k)) - Dx(k)) + Sq(Dy(After(k)) - Dy(k))

\* C30: the N related nodes of a render are N evenly spaced points of the
\* circle of the fixed radius around the fixed centre, the first at angle 0
\* and the k-th one step of a turn / N after the one before it, up to the
\* rounding of each coordinate down to a cell: every node lies on the
\* circle, the offsets sum to zero, the nodes follow each other in one
\* sense of rotation at equal distances; and the positions are those of
\* every other edge list of the same length, whatever its types
C30_EvenlySpacedOnCircle ==
  LET N == Len(graphRelations)
  IN N >= 1 =>
       /\ Len(graphNodes) = N + 1
       /\ graphNodes[1].x = CenterX /\ graphNodes[1].y = CenterY
       /\ Dx(1) = Radius /\ Dy(1) = 0
       /\ \A k \in 1..N : OnCircle(k)
       /\ N >= 2 => /\ SumDx(N) \in (0 - N)..0
                    /\ SumDy(N) \in (0 - N)..0
       /\ N >= 3 =>
            \A k \in 1..N :
              /\ Dx(k) * Dy(After(k)) - Dy(k) * Dx(After(k)) > 0
              /\ \A j \in 1..N : Chord(k) - Chord(j) <= 12 * Radius
       /\ \A rels \in RelationAnswers :
            Len(rels) = N =>
              LET other == renderRelationshipGraph("i1", rels).nodes
              IN \A k \in 1..(N + 1) :
                   other[k].x = graphNodes[k].x /\ other[k].y = graphNodes[k].y

C30_Witness ==
  /\ Len(graphRelations) = 4
  /\ \E k \in 1..4 : graphRelations[k].type # "related"
  /\ Dx(2) = 0 /\ Dy(2) = Radius
  /\ Dx(3) = 0 - Radius /\ Dy(3) = 0
  /\ Dy(4) = 0 - Radius

(* The graph view *)

\* C31: the refresh key of the graph box, and the entry into the graph view
\* with an issue selected, each start exactly one fetch of the relations of
\* the selected issue
C31_EveryRenderFetches ==
  [][ (GraphRefresh \/ GraphOpen) =>
        graphPending' = Append(graphPending, selectedIssueId) ]_vars

\* C32: a click on a node of the graph, the focal node or a related one,
\* leaves the id of the node's issue in selectedIssueId and DETAIL as the
\* view mode, with the detail box shown and the graph box hidden
C32_NodeClickOpensDetail ==
  [][ \A k \in 1..(2 * (1 + 3 * MaxRelations)) :
        GraphNodeClick(k) =>
          /\ selectedIssueId' = graphChildren[k].id
          /\ viewMode' = DETAIL
          /\ detailShown' /\ ~graphShown' ]_vars

C32_Witness ==
  /\ viewMode = DETAIL
  /\ Len(emitted) = 2
  /\ emitted[1].name = "issue-selected"
  /\ emitted[1].payload = selectedIssueId
  /\ \A k \in 1..Len(issues) : issues[k].id # selectedIssueId
  /\ Len(graphNodes) > 1
  /\ \E k \in 2..Len(graphNodes) : graphNodes[k].id = selectedIssueId

\* C36: once no render of the graph is in flight, the nodes in the container
\* are the nodes of one render: the focal node and one node per edge of the
\* fetch that was answered last, and no node beside them
C36_OneRenderInContainer ==
  graphPending = <<>> =>
    SelectSeq(graphChildren, LAMBDA w : w.kind = "node") = graphNodes

\* C37: a selected issue is an issue of the current issue list
C37_SelectionInIssueList ==
  selectedIssueId # Null =>
    \E k \in 1..Len(issues) : issues[k].id = selectedIssueId

\* C38: in the board session the detail view and the graph view are only
\* open while an issue is selected
C38_OpenViewHasSelection ==
  viewMode \in {DETAIL, RELATIONSHIP_GRAPH} => selectedIssueId # Null

C38_Witness ==
  /\ viewMode = RELATIONSHIP_GRAPH
  /\ graphShown
  /\ selectedIssueId # Null
  /\ Len(emitted) = 1
  /\ emitted[1].name = "view-mode-changed"

(* Refresh of one issue *)

\* C39: refreshIssue(issueId) keeps the length and the order of the issue
\* list and every snapshot but the one of the issue whose id is issueId; a
\* fetch that fails or returns no issue leaves the list as it is
C39_RefreshIssueFrame ==
  [][ \A ok \in BOOLEAN :
        RefreshDone(ok) =>
          /\ Len(issues') = Len(issues)
          /\ \A k \in 1..Len(issues) :
               /\ issues'[k].id = issues[k].id
               /\ issues[k].id # task.issueId => issues'[k] = issues[k]
          /\ (~ok \/ remote = <<>>) => issues' = issues ]_vars

(* Overlapping operations *)

\* C34: isLoading is true whenever a remote call of a board operation is in
\* flight
C34_LoadingWhileInFlight ==
  pending # <<>> => isLoading

\* C35: once no team change is in flight, the workflow
\* states and the issues are the ones the service holds for the selected
\* team
C35_ListsOfSelectedTeam ==
  (pending = <<>> /\ selectedTeamId # Null) =>
    /\ {workflowStates[k] : k \in 1..Len(workflowStates)}
         = {TeamData(selectedTeamId).states[k] : k \in 1..2}
    /\ issues = TeamData(selectedTeamId).issues

(* Termination of the event chains *)

\* C40: whatever column index a setter leaves behind, the render it starts
\* makes at most one corrective setFocusedColumn(0), whose render makes
\* none: a setter call runs renderBoard at most twice, and the events one
\* handler publishes are finitely many
C40_AtMostOneNestedRender ==
  /\ \A col \in 0..(MaxIssues + MaxStates + 1) :
       nestedRenders(issues, workflowStates, filterDimension, col,
                     MaxNesting) <= 2
  /\ Len(emitted) <= 4

C40_Witness ==
  /\ Len(issues) > 0
  /\ Len(emitted) >= 2
  /\ emitted[Len(emitted)].name = "focused-column-changed"
  /\ emitted[Len(emitted)].payload = 0
  /\ emitted[1].name # "focused-column-changed"
  /\ focusedColumnIndex = 0
  /\ nestedRenders(issues, workflowStates, filterDimension, Len(columns),
                   MaxNesting) = 2

(* The standalone board *)

\* C33: on the standalone board the selected column is one of the columns
\* whenever there is a column, and the selected card of every column is one
\* of its cards, or -1 when the column has none
C33_StandaloneIndicesInRange ==
  /\ Len(states) >= 1 => currentColumnIndex \in 0..(Len(states) - 1)
  /\ Len(stateIssues) = Len(states)
  /\ Len(currentCardIndices) = Len(states)
  /\ \A k \in 1..Len(states) :
       IF Len(stateIssues[k]) = 0
       THEN currentCardIndices[k] = -1
       ELSE currentCardIndices[k] \in 0..(Len(stateIssues[k]) - 1)

C33_Witness ==
  /\ Len(states) >= 2
  /\ currentColumnIndex >= 1
  /\ \E k \in 1..Len(states) : currentCardIndices[k] >= 1
  /\ \E k \in 1..Len(states) : currentCardIndices[k] = -1

====
